---- MODULE Spec2Model ----
(***************************************************************************)
(* Multi-account credential manager of the Gmail and iCloud mail servers.  *)
(*                                                                         *)
(* Both packages ship a class AccountManager: the iCloud one               *)
(* (src/unnamed/part_000, lines 1214-1504) and the Gmail one               *)
(* (src/src/account-manager.ts, lines 25-343).  A manager owns an          *)
(* in-memory registry (a JavaScript object keyed by email, whose key order *)
(* is insertion order), and three kinds of files: the registry file, one   *)
(* credential file per account and the active-account file.                *)
(*                                                                         *)
(* Every method is an operator from the manager's state (a record) and the *)
(* call's arguments to a result record: the state the call leaves behind   *)
(* (mutations made before a throw are kept) and the error it throws, if    *)
(* any.  Each action applies one method to the variables.                  *)
(***************************************************************************)
EXTENDS Integers, Sequences, FiniteSets, TLC

VARIABLES provider, registry, diskRegistry, credFiles, activeFile,
          clients, oauth2Config, clock, last,
          batch, tool, imap, imapLast, imapCall, imapClients, tasks

\* The account manager's part of the state.
acctVars == <<provider, registry, diskRegistry, credFiles, activeFile,
              clients, oauth2Config, clock, last>>

imapVars == <<imap, imapLast, imapCall>>

\* The iCloud server's cache of ImapClients and its tool calls in flight.
asyncVars == <<imapClients, tasks>>

vars == <<provider, registry, diskRegistry, credFiles, activeFile,
          clients, oauth2Config, clock, last, batch, tool, imap,
          imapLast, imapCall, imapClients, tasks>>

(* ----------------------------- bounds --------------------------------- *)

\* Largest value of the millisecond clock read by `new Date()`.
MaxClock == 2

\* Primary emails that can be onboarded.
Emails == {"a", "b"}

\* Alias strings a caller can supply: a plain nickname and a string that is
\* also somebody's email.
AliasNames == {"x", "b"}

\* An optional argument that was not supplied (JavaScript undefined).
Undefined == "<undefined>"

\* Absence of the active-account file (getActiveAccount returns null).
Null == "<null>"

\* Identifier strings a caller can pass as emailOrAlias.
Identifiers == Emails \cup AliasNames

Providers == {"icloud", "gmail"}

(* --------------------------- JavaScript values ------------------------ *)

\* JavaScript truthiness of an optional string: undefined, null and the
\* empty string are falsy.
Truthy(v) == v # Undefined /\ v # Null /\ v # ""

\* `a || b` on optional strings.
OrElse(a, b) == IF Truthy(a) THEN a ELSE b

Range(seq) == {seq[i] : i \in DOMAIN seq}

(* ------------------- the registry object (keyed by email) ------------- *)

\* path.join(ACCOUNTS_DIR, `${email}.json`)
credentialsPathOf(email) == <<"accounts", email, ".json">>

\* `this.registry[key]` is truthy
HasKey(reg, key) == \E i \in DOMAIN reg : reg[i].email = key

\* `this.registry[key]`
Entry(reg, key) == reg[CHOOSE i \in DOMAIN reg : reg[i].email = key]

\* `this.registry[email] = entry`: an existing key keeps its position in
\* the object's key order, a new key is appended.
PutEntry(reg, entry) ==
    IF HasKey(reg, entry.email)
    THEN [i \in DOMAIN reg |-> IF reg[i].email = entry.email THEN entry ELSE reg[i]]
    ELSE Append(reg, entry)

\* `delete this.registry[email]`
DeleteKey(reg, email) == SelectSeq(reg, LAMBDA e : e.email # email)

\* `this.registry[email].lastUsed = new Date()`
Touch(reg, email, now) ==
    [i \in DOMAIN reg |->
        IF reg[i].email = email THEN [reg[i] EXCEPT !.lastUsed = now] ELSE reg[i]]

\* `this.registry[email].alias = newAlias`
WithAlias(reg, email, newAlias) ==
    [i \in DOMAIN reg |->
        IF reg[i].email = email THEN [reg[i] EXCEPT !.alias = newAlias] ELSE reg[i]]

\* The comparator handed to Array.prototype.sort by listAccounts:
\* (a, b) => b.lastUsed.getTime() - a.lastUsed.getTime()
compareLastUsed_ascending(a, b) == a.lastUsed - b.lastUsed
compareLastUsed(a, b) == b.lastUsed - a.lastUsed

\* Array.prototype.sort is a stable sort: an element is placed after every
\* element the comparator does not order behind it.
InsertSorted(sorted, e) ==
    LET k == Cardinality({i \in DOMAIN sorted : compareLastUsed(sorted[i], e) <= 0})
    IN  SubSeq(sorted, 1, k) \o <<e>> \o SubSeq(sorted, k + 1, Len(sorted))

RECURSIVE SortEntries(_)
SortEntries(seq) ==
    IF seq = <<>> THEN <<>>
    ELSE InsertSorted(SortEntries(SubSeq(seq, 1, Len(seq) - 1)), seq[Len(seq)])

\* listAccounts(): Object.values(this.registry).sort(...)
listAccounts(reg) == SortEntries(reg)

\* resolveEmailFromAlias(emailOrAlias): the registry key wins, then the
\* first entry in key order whose alias equals the string, else the string
\* itself.
resolveEmailFromAlias_aliasFirst(reg, emailOrAlias) ==
    IF \E i \in DOMAIN reg : reg[i].alias = emailOrAlias
    THEN LET first == CHOOSE i \in DOMAIN reg :
                 /\ reg[i].alias = emailOrAlias
                 /\ \A j \in DOMAIN reg : reg[j].alias = emailOrAlias => i <= j
         IN  reg[first].email
    ELSE emailOrAlias
resolveEmailFromAlias_failFast(reg, emailOrAlias) ==
    IF HasKey(reg, emailOrAlias) THEN emailOrAlias
    ELSE IF \E i \in DOMAIN reg : reg[i].alias = emailOrAlias
    THEN LET first == CHOOSE i \in DOMAIN reg :
                 /\ reg[i].alias = emailOrAlias
                 /\ \A j \in DOMAIN reg : reg[j].alias = emailOrAlias => i <= j
         IN  reg[first].email
    ELSE Null
resolveEmailFromAlias(reg, emailOrAlias) ==
    IF HasKey(reg, emailOrAlias) THEN emailOrAlias
    ELSE IF \E i \in DOMAIN reg : reg[i].alias = emailOrAlias
    THEN LET first == CHOOSE i \in DOMAIN reg :
                 /\ reg[i].alias = emailOrAlias
                 /\ \A j \in DOMAIN reg : reg[j].alias = emailOrAlias => i <= j
         IN  reg[first].email
    ELSE emailOrAlias

\* The `.map(a => a.alias || a.email)` list of the account-not-found message.
AvailableAccounts_onlyFirst(reg) ==
    LET accounts == listAccounts(reg)
    IN  [i \in DOMAIN accounts \cap {1} |-> OrElse(accounts[i].alias, accounts[i].email)]
AvailableAccounts(reg) ==
    LET accounts == listAccounts(reg)
    IN  [i \in DOMAIN accounts |-> OrElse(accounts[i].alias, accounts[i].email)]

(* ----------------------- results of a method call --------------------- *)

\* A call that returned normally; email is the account it resolved.
Return(s, email) ==
    [s |-> s, err |-> "none", email |-> email, lists |-> FALSE, names |-> <<>>]

\* A call that threw: err is the kind of Error, lists says whether the
\* message carries an "Available accounts:" list and names is that list.
Throw(s, err, email) ==
    [s |-> s, err |-> err, email |-> email, lists |-> FALSE, names |-> <<>>]

ThrowListing(s, err, email) ==
    [s |-> s, err |-> err, email |-> email, lists |-> TRUE,
     names |-> AvailableAccounts(s.registry)]

(* ------------------------- methods of both classes -------------------- *)

\* saveRegistry(): the registry file is rewritten in full.
saveRegistry_merging(s) ==
    [s EXCEPT !.diskRegistry =
        s.registry \o SelectSeq(s.diskRegistry,
                                LAMBDA e : ~HasKey(s.registry, e.email))]
saveRegistry(s) == [s EXCEPT !.diskRegistry = s.registry]

\* getActiveAccount(): the file's content, or null when the file is absent.
\* The stored strings carry no surrounding white space, so trim() returns
\* them as they are.
getActiveAccount(s) == s.activeFile

\* The value setActiveAccount writes into the active-account file.
activePointerValue_rawIdentifier(emailOrAlias, email) == emailOrAlias
activePointerValue(emailOrAlias, email) == email

\* setActiveAccount(emailOrAlias)
setActiveAccount(s, emailOrAlias, now) ==
    LET email == resolveEmailFromAlias(s.registry, emailOrAlias)
    IN  IF ~HasKey(s.registry, email)
        THEN Throw(s, "AccountNotFound", email)
        ELSE Return(saveRegistry(
                 [s EXCEPT !.activeFile = activePointerValue(emailOrAlias, email),
                           !.registry = Touch(s.registry, email, now)]), email)

\* The pointer left by removeAccount's "clear active account if it was this
\* one" step.
activeAfterRemove_alwaysCleared(active, email) == Null
activeAfterRemove_neverCleared(active, email) == active
activeAfterRemove(active, email) == IF active = email THEN Null ELSE active

\* The test `accounts.length === 1` that makes addAccount activate the
\* account it has just stored.
isFirstAccount_anyCount(accounts) == Len(accounts) >= 1
isFirstAccount(accounts) == Len(accounts) = 1

\* The no-identifier branch of getCredentials / getClient: which account an
\* omitted identifier stands for.  promote is TRUE when the only registered
\* account has to be activated first.
defaultAccount_guessFirst(active, accounts) ==
    IF Truthy(active) THEN [err |-> "none", email |-> active, promote |-> FALSE]
    ELSE IF Len(accounts) = 0
    THEN [err |-> "NoAccounts", email |-> Null, promote |-> FALSE]
    ELSE [err |-> "none", email |-> accounts[1].email, promote |-> TRUE]
defaultAccount(active, accounts) ==
    IF Truthy(active) THEN [err |-> "none", email |-> active, promote |-> FALSE]
    ELSE IF Len(accounts) = 0
    THEN [err |-> "NoAccounts", email |-> Null, promote |-> FALSE]
    ELSE IF Len(accounts) = 1
    THEN [err |-> "none", email |-> accounts[1].email, promote |-> TRUE]
    ELSE [err |-> "NoActiveAccount", email |-> Null, promote |-> FALSE]

(* ------------------------ iCloud AccountManager ----------------------- *)

\* ensureAliasAvailable(alias, ownerEmail): the error thrown at the first
\* registry key, in key order, that trips one of the two tests.
ensureAliasAvailable(reg, alias, ownerEmail) ==
    LET shadows(i) == alias = reg[i].email /\ reg[i].email # ownerEmail
        inUse(i)   == reg[i].alias = alias /\ reg[i].email # ownerEmail
        hits       == {i \in DOMAIN reg : shadows(i) \/ inUse(i)}
    IN  IF hits = {} THEN "none"
        ELSE LET first == CHOOSE i \in hits : \A j \in hits : i <= j
             IN  IF shadows(first) THEN "AliasIsEmail" ELSE "AliasInUse"

\* The part of addAccount both classes share: write the credential file,
\* store the entry, save, and activate the account when it is the only one.
\* Both `new Date()` reads of the call fall into the same clock value.
storeAccount(s, email, alias, now) ==
    LET stored == saveRegistry(
            [s EXCEPT !.credFiles = s.credFiles \cup {credentialsPathOf(email)},
                      !.registry = PutEntry(s.registry,
                          [email |-> email, alias |-> alias,
                           credentialsPath |-> credentialsPathOf(email),
                           lastUsed |-> now])])
    IN  IF isFirstAccount(listAccounts(stored.registry))
        THEN LET r == setActiveAccount(stored, email, now)
             IN  IF r.err = "none" THEN Return(r.s, email) ELSE r
        ELSE Return(stored, email)

\* iCloud addAccount(credentials, alias)
addAccount_checkAfterWrite(s, email, alias, now) ==
    LET check == IF Truthy(alias)
                 THEN ensureAliasAvailable(s.registry, alias, email)
                 ELSE "none"
        written == [s EXCEPT !.credFiles = s.credFiles \cup {credentialsPathOf(email)}]
    IN  IF check # "none" THEN Throw(written, check, email)
        ELSE storeAccount(s, email, alias, now)
addAccount(s, email, alias, now) ==
    LET check == IF Truthy(alias)
                 THEN ensureAliasAvailable(s.registry, alias, email)
                 ELSE "none"
    IN  IF check # "none" THEN Throw(s, check, email)
        ELSE storeAccount(s, email, alias, now)

\* removeAccount(emailOrAlias), up to the Gmail class's client cache.
removeAccount(s, emailOrAlias) ==
    LET email == resolveEmailFromAlias(s.registry, emailOrAlias)
    IN  IF ~HasKey(s.registry, email)
        THEN Throw(s, "AccountNotFound", email)
        ELSE LET removed == saveRegistry(
                     [s EXCEPT !.credFiles =
                                   s.credFiles \ {Entry(s.registry, email).credentialsPath},
                               !.registry = DeleteKey(s.registry, email)])
             IN  Return([removed EXCEPT !.activeFile =
                             activeAfterRemove(getActiveAccount(removed), email)],
                        email)

\* iCloud setAlias(emailOrAlias, newAlias)
setAlias(s, emailOrAlias, newAlias) ==
    LET email == resolveEmailFromAlias(s.registry, emailOrAlias)
    IN  IF ~HasKey(s.registry, email)
        THEN Throw(s, "AccountNotFound", email)
        ELSE LET check == ensureAliasAvailable(s.registry, newAlias, email)
             IN  IF check # "none" THEN Throw(s, check, email)
                 ELSE Return(saveRegistry(
                          [s EXCEPT !.registry = WithAlias(s.registry, email, newAlias)]),
                          email)

\* The account a getCredentials / getClient call stands for (the first half
\* of both methods): the state after a possible auto-activation and the
\* email to look up.
resolveAccount(s, emailOrAlias, now) ==
    IF Truthy(emailOrAlias)
    THEN Return(s, resolveEmailFromAlias(s.registry, emailOrAlias))
    ELSE LET d == defaultAccount(getActiveAccount(s), listAccounts(s.registry))
         IN  IF d.err # "none" THEN Throw(s, d.err, d.email)
             ELSE IF d.promote THEN setActiveAccount(s, d.email, now)
             ELSE Return(s, d.email)

\* iCloud getCredentials(emailOrAlias)
getCredentials(s, emailOrAlias, now) ==
    LET r == resolveAccount(s, emailOrAlias, now)
    IN  IF r.err # "none" THEN r
        ELSE IF ~HasKey(r.s.registry, r.email)
        THEN ThrowListing(r.s, "AccountNotFound", r.email)
        ELSE IF Entry(r.s.registry, r.email).credentialsPath \notin r.s.credFiles
        THEN Throw(r.s, "CredentialsFileNotFound", r.email)
        ELSE Return(saveRegistry(
                 [r.s EXCEPT !.registry = Touch(r.s.registry, r.email, now)]),
                 r.email)

(* ------------------------- Gmail AccountManager ----------------------- *)

\* Gmail addAccount(email, credentials, alias, scopes): no alias check.
Gmail_addAccount(s, email, alias, now) == storeAccount(s, email, alias, now)

\* A removeAccount that leaves the client cache alone.
Gmail_removeAccount_keepingClient(s, emailOrAlias) == removeAccount(s, emailOrAlias)

\* Gmail removeAccount(emailOrAlias): also drops the cached client.
Gmail_removeAccount(s, emailOrAlias) ==
    LET r == removeAccount(s, emailOrAlias)
    IN  IF r.err # "none" THEN r
        ELSE [r EXCEPT !.s.clients = r.s.clients \ {r.email}]

\* Gmail setAlias(emailOrAlias, newAlias): only other entries' aliases are
\* compared with the new alias.
Gmail_setAlias(s, emailOrAlias, newAlias) ==
    LET email == resolveEmailFromAlias(s.registry, emailOrAlias)
        reg   == s.registry
    IN  IF ~HasKey(reg, email)
        THEN Throw(s, "AccountNotFound", email)
        ELSE IF \E i \in DOMAIN reg : reg[i].alias = newAlias /\ reg[i].email # email
        THEN Throw(s, "AliasInUse", email)
        ELSE Return(saveRegistry(
                 [s EXCEPT !.registry = WithAlias(reg, email, newAlias)]), email)

\* Gmail getClient(emailOrAlias)
getClient(s, emailOrAlias, now) ==
    LET r == resolveAccount(s, emailOrAlias, now)
    IN  IF r.err # "none" THEN r
        ELSE IF ~HasKey(r.s.registry, r.email)
        THEN ThrowListing(r.s, "AccountNotFound", r.email)
        ELSE IF r.email \in r.s.clients
        THEN Return(r.s, r.email)
        ELSE IF ~r.s.oauth2Config
        THEN Throw(r.s, "OAuth2NotInitialized", r.email)
        ELSE IF Entry(r.s.registry, r.email).credentialsPath \notin r.s.credFiles
        THEN Throw(r.s, "CredentialsFileNotFound", r.email)
        ELSE Return([r.s EXCEPT !.clients = r.s.clients \cup {r.email}], r.email)

(* ------------------------------- state -------------------------------- *)

\* The manager's fields and files as one record.
State ==
    [registry |-> registry, diskRegistry |-> diskRegistry,
     credFiles |-> credFiles, activeFile |-> activeFile,
     clients |-> clients, oauth2Config |-> oauth2Config]

\* A manager of a second process, as its constructor builds it: the
\* registry is what loadRegistry reads from the registry file.
PeerState ==
    [registry |-> diskRegistry, diskRegistry |-> diskRegistry,
     credFiles |-> credFiles, activeFile |-> activeFile,
     clients |-> {}, oauth2Config |-> FALSE]

\* Values `new Date()` can return: the clock never runs backwards.
Now == {t \in {clock, clock + 1} : t <= MaxClock}

Call(op, arg, alias, r) ==
    [op |-> op, arg |-> arg, alias |-> alias, err |-> r.err,
     email |-> r.email, lists |-> r.lists, names |-> r.names]

\* Apply the result of a method call of this process's manager.
Apply(op, arg, alias, r, now) ==
    /\ registry' = r.s.registry
    /\ diskRegistry' = r.s.diskRegistry
    /\ credFiles' = r.s.credFiles
    /\ activeFile' = r.s.activeFile
    /\ clients' = r.s.clients
    /\ oauth2Config' = r.s.oauth2Config
    /\ clock' = now
    /\ last' = Call(op, arg, alias, r)
    /\ UNCHANGED <<provider, batch, tool, imapVars, asyncVars>>

\* No batch tool call is running.
BatchIdle ==
    [pc |-> "idle", handler |-> "none", items |-> <<>>, batchSize |-> 0,
     i |-> 0, successes |-> <<>>, failures |-> <<>>,
     messages |-> {}, labelled |-> {}, messages0 |-> {},
     attempted |-> {}, chunkRejected |-> {}, retryRejected |-> {}]

\* No tool call has reached the dispatcher.
ToolIdle ==
    [pc |-> "idle", server |-> "none", name |-> "none", args |-> <<>>,
     env |-> <<>>, effect |-> <<>>, response |-> <<>>]

\* The iCloud server's client cache at start: an empty Map.
NoClients == [email \in {} |-> 0]

\* No tool call of the iCloud server is in flight.
NoTasks == <<>>

\* An ImapClient as its constructor leaves it: no connection, no mailbox.
ImapNew == [client |-> "null", currentMailbox |-> Null, selected |-> Null]

\* No ImapClient method has been called yet.
ImapNoCall ==
    [op |-> "new", calls |-> 0, mailbox |-> Null, cached |-> Null,
     cmds |-> <<>>, err |-> "none", dropped |-> FALSE, args |-> <<>>,
     reply |-> <<>>, result |-> <<>>]

\* The account manager of a fresh installation: no files, and a manager
\* just constructed.
AcctInit ==
    /\ registry = <<>>
    /\ diskRegistry = <<>>
    /\ credFiles = {}
    /\ activeFile = Null
    /\ clients = {}
    /\ oauth2Config = FALSE
    /\ clock = 0
    /\ last = [op |-> "new", arg |-> Undefined, alias |-> Undefined,
               err |-> "none", email |-> Null, lists |-> FALSE, names |-> <<>>]

\* A fresh installation: no files, and a manager just constructed.
Init ==
    /\ batch = BatchIdle
    /\ tool = ToolIdle
    /\ imapClients = NoClients
    /\ tasks = NoTasks
    /\ imap = ImapNew
    /\ imapLast = ImapNoCall
    /\ imapCall = Null
    /\ provider \in Providers
    /\ registry = <<>>
    /\ diskRegistry = <<>>
    /\ credFiles = {}
    /\ activeFile = Null
    /\ clients = {}
    /\ oauth2Config = FALSE
    /\ clock = 0
    /\ last = [op |-> "new", arg |-> Undefined, alias |-> Undefined,
               err |-> "none", email |-> Null, lists |-> FALSE, names |-> <<>>]

(* ------------------------------ actions ------------------------------- *)

InitializeOAuth2Config ==
    /\ provider = "gmail"
    /\ ~oauth2Config
    /\ oauth2Config' = TRUE
    /\ last' = [op |-> "initializeOAuth2Config", arg |-> Undefined,
                alias |-> Undefined, err |-> "none", email |-> Null,
                lists |-> FALSE, names |-> <<>>]
    /\ UNCHANGED <<provider, registry, diskRegistry, credFiles, activeFile,
                   clients, clock, batch, tool, imapVars, asyncVars>>

AddAccount(email, alias) ==
    \E now \in Now :
        Apply("addAccount", email, alias,
              IF provider = "icloud"
              THEN addAccount(State, email, alias, now)
              ELSE Gmail_addAccount(State, email, alias, now),
              now)

RemoveAccount(emailOrAlias) ==
    Apply("removeAccount", emailOrAlias, Undefined,
          IF provider = "icloud"
          THEN removeAccount(State, emailOrAlias)
          ELSE Gmail_removeAccount(State, emailOrAlias),
          clock)

SetAlias(emailOrAlias, newAlias) ==
    Apply("setAlias", emailOrAlias, newAlias,
          IF provider = "icloud"
          THEN setAlias(State, emailOrAlias, newAlias)
          ELSE Gmail_setAlias(State, emailOrAlias, newAlias),
          clock)

SetActiveAccount(emailOrAlias) ==
    \E now \in Now :
        Apply("setActiveAccount", emailOrAlias, Undefined,
              setActiveAccount(State, emailOrAlias, now), now)

GetCredentials(emailOrAlias) ==
    /\ provider = "icloud"
    /\ \E now \in Now :
        Apply("getCredentials", emailOrAlias, Undefined,
              getCredentials(State, emailOrAlias, now), now)

GetClient(emailOrAlias) ==
    /\ provider = "gmail"
    /\ \E now \in Now :
        Apply("getClient", emailOrAlias, Undefined,
              getClient(State, emailOrAlias, now), now)

\* A manager of another process on the same configuration directory (a
\* second server) is constructed, removes an account and exits.
PeerRemoveAccount(emailOrAlias) ==
    LET r == IF provider = "icloud"
             THEN removeAccount(PeerState, emailOrAlias)
             ELSE Gmail_removeAccount(PeerState, emailOrAlias)
    IN  /\ r.err = "none"
        /\ diskRegistry' = r.s.diskRegistry
        /\ credFiles' = r.s.credFiles
        /\ activeFile' = r.s.activeFile
        /\ last' = Call("peerRemoveAccount", emailOrAlias, Undefined, r)
        /\ UNCHANGED <<provider, registry, clients, oauth2Config, clock,
                       batch, tool, imapVars, asyncVars>>

Next ==
    \/ InitializeOAuth2Config
    \/ \E email \in Emails, alias \in AliasNames \cup {Undefined} :
           AddAccount(email, alias)
    \/ \E id \in Identifiers : RemoveAccount(id)
    \/ \E id \in Identifiers, alias \in AliasNames : SetAlias(id, alias)
    \/ \E id \in Identifiers : SetActiveAccount(id)
    \/ \E id \in Identifiers \cup {Undefined} : GetCredentials(id)
    \/ \E id \in Identifiers \cup {Undefined} : GetClient(id)

\* One manager on its configuration directory.
Spec == Init /\ [][Next]_vars

NextShared ==
    \/ Next
    \/ \E id \in Identifiers : PeerRemoveAccount(id)

\* The manager shares its configuration directory with other processes.
SpecShared == Init /\ [][NextShared]_vars

TypeOK ==
    /\ provider \in Providers
    /\ \A i \in DOMAIN registry :
           /\ registry[i].email \in Emails
           /\ registry[i].alias \in AliasNames \cup {Undefined}
           /\ registry[i].lastUsed \in 0..MaxClock
    /\ activeFile \in Emails \cup {Null}
    /\ clients \subseteq Emails
    /\ oauth2Config \in BOOLEAN
    /\ clock \in 0..MaxClock

(* --------------------- vocabulary of the properties ------------------- *)

\* No two entries share a non-empty alias, and no entry's alias is the
\* email of a different entry.
AliasIntegrity(reg) ==
    \A i, j \in DOMAIN reg :
        (i # j /\ Truthy(reg[i].alias)) =>
            /\ reg[i].alias # reg[j].alias
            /\ reg[i].alias # reg[j].email

\* The alias is taken by an entry other than owner's: it is that entry's
\* email or its alias.
AliasTaken(reg, alias, owner) ==
    /\ Truthy(alias)
    /\ \E i \in DOMAIN reg :
           /\ reg[i].email # owner
           /\ (reg[i].email = alias \/ reg[i].alias = alias)

\* The error message of the call names every account of the registry, by
\* its alias or else its email.
NamesEveryAccount(call, reg) ==
    \A i \in DOMAIN reg : OrElse(reg[i].alias, reg[i].email) \in Range(call.names)

\* The identifier designates the registered account e: it is e's email, or
\* it is no registered email and an alias of e.
Designates(reg, id, e) ==
    /\ HasKey(reg, e)
    /\ \/ id = e
       \/ ~HasKey(reg, id) /\ Entry(reg, e).alias = id

IsRetrieval(call) == call.op \in {"getCredentials", "getClient"}

(* ------------------------------- claims ------------------------------- *)

(* C1: in the iCloud AccountManager every reachable registry has no two
   entries sharing a non-empty alias and no entry whose alias equals the
   email of a different entry.  The code checks the alias of a new account
   against the registered emails, but not the email of a new account against
   the registered aliases. *)
C1_ICloudAliasIntegrity ==
    provider = "icloud" => AliasIntegrity(registry)

(* C2: in the Gmail AccountManager addAccount and setAlias fail with an
   alias-collision error whenever the supplied alias is the email or the
   alias of another registered account, so that the registry never holds
   two entries sharing a non-empty alias nor an alias equal to a different
   account's email. *)
C2_GmailAliasCollisionRejected ==
    [][ (provider = "gmail" /\ last'.op \in {"addAccount", "setAlias"}) =>
          /\ ( /\ last'.op = "setAlias" => HasKey(registry, last'.email)
               /\ AliasTaken(registry, last'.alias, last'.email) )
             => last'.err \in {"AliasIsEmail", "AliasInUse"}
          /\ AliasIntegrity(registry') ]_vars

(* C3: auto-activation.  addAccount(A) on an empty registry with no active
   pointer leaves the pointer equal to A; addAccount(B) on a registry whose
   only account A is active, B different from A, leaves the pointer equal
   to A. *)
C3_AutoActivation ==
    [][ last'.op = "addAccount" =>
          /\ (registry = <<>> /\ activeFile = Null) => activeFile' = last'.arg
          /\ ( /\ Len(registry) = 1
               /\ activeFile = registry[1].email
               /\ last'.arg # registry[1].email )
             => activeFile' = activeFile ]_vars

\* A second account has been added next to the active first one.
C3_Witness ==
    /\ last.op = "addAccount"
    /\ last.err = "none"
    /\ Len(registry) = 2
    /\ registry[2].email = last.arg
    /\ activeFile = registry[1].email

(* C4 as stated: a retrieval without identifier uses the active pointer if
   it is set; promotes and uses the only account if the pointer is unset and
   one account is registered; otherwise fails with an error whose message
   names every available account, leaving the pointer unset. *)
C4_AmbiguousErrorNamesAccounts ==
    [][ (IsRetrieval(last') /\ ~Truthy(last'.arg)) =>
          /\ activeFile # Null => last'.email = activeFile
          /\ (activeFile = Null /\ Len(registry) = 1) =>
                 /\ activeFile' = registry[1].email
                 /\ last'.email = registry[1].email
          /\ (activeFile = Null /\ Len(registry) # 1) =>
                 /\ last'.err \in {"NoAccounts", "NoActiveAccount"}
                 /\ NamesEveryAccount(last', registry)
                 /\ activeFile' = Null ]_vars

(* C4, amended: as above, except that the error raised when the pointer is
   unset and zero or at least two accounts are registered is a fixed
   message (no accounts authenticated / no active account) that names no
   account identifier. *)
C4_DefaultAccountResolution ==
    [][ (IsRetrieval(last') /\ ~Truthy(last'.arg)) =>
          /\ activeFile # Null => last'.email = activeFile
          /\ (activeFile = Null /\ Len(registry) = 1) =>
                 /\ activeFile' = registry[1].email
                 /\ last'.email = registry[1].email
          /\ (activeFile = Null /\ Len(registry) # 1) =>
                 /\ last'.err = IF registry = <<>> THEN "NoAccounts"
                                ELSE "NoActiveAccount"
                 /\ ~last'.lists /\ last'.names = <<>>
                 /\ activeFile' = Null
                 /\ registry' = registry ]_vars

\* A retrieval without identifier failed with two accounts and no pointer.
C4_Witness ==
    /\ IsRetrieval(last)
    /\ ~Truthy(last.arg)
    /\ last.err = "NoActiveAccount"
    /\ Len(registry) >= 2
    /\ activeFile = Null

(* C5: resolution idempotence.  resolveEmailFromAlias returns every
   registered email unchanged, whatever aliases the entries hold. *)
C5_ResolutionIdempotence ==
    \A i \in DOMAIN registry :
        resolveEmailFromAlias(registry, registry[i].email) = registry[i].email

\* A registered email is at the same time the alias of another entry.
C5_Witness ==
    \E i, j \in DOMAIN registry :
        i # j /\ registry[i].alias = registry[j].email

(* C6 as stated: getCredentials fails with an account-not-found error that
   lists the available accounts both when the resolved email has no entry
   and when the entry's credential file is missing; no credentials are
   returned and no last-used timestamp changes. *)
C6_BothFailuresListAccounts ==
    [][ ( /\ last'.op = "getCredentials"
          /\ last'.email # Null
          /\ \/ ~HasKey(registry, last'.email)
             \/ Entry(registry, last'.email).credentialsPath \notin credFiles )
        => /\ last'.err = "AccountNotFound"
           /\ last'.lists
           /\ NamesEveryAccount(last', registry)
           /\ registry' = registry ]_vars

(* C6, amended: when the resolved email has no entry, getCredentials fails
   with an account-not-found error that lists the available accounts and
   changes nothing; when the entry exists but its credential file is
   missing, it fails with a credentials-file-not-found error that carries no
   list, and no timestamp changes except that a call without identifier
   that has just activated the only account has refreshed that account's
   timestamp.  No credentials are returned in either case. *)
C6_RetrievalFailures ==
    [][ (last'.op = "getCredentials" /\ last'.email # Null) =>
          /\ ~HasKey(registry, last'.email) =>
                 /\ last'.err = "AccountNotFound"
                 /\ last'.lists
                 /\ Len(last'.names) = Len(registry)
                 /\ NamesEveryAccount(last', registry)
                 /\ registry' = registry
                 /\ activeFile' = activeFile
          /\ ( /\ HasKey(registry, last'.email)
               /\ Entry(registry, last'.email).credentialsPath \notin credFiles )
             => /\ last'.err = "CredentialsFileNotFound"
                /\ ~last'.lists
                /\ \/ registry' = registry
                   \/ /\ ~Truthy(last'.arg)
                      /\ activeFile = Null
                      /\ Len(registry) = 1
                      /\ activeFile' = last'.email
                      /\ registry' = Touch(registry, last'.email, clock') ]_vars

\* getCredentials failed on a registered account whose credential file
\* another process has deleted.
C6_Witness ==
    /\ last.op = "getCredentials"
    /\ last.err = "CredentialsFileNotFound"
    /\ HasKey(registry, last.email)

(* C7: every successful credential retrieval (iCloud getCredentials, Gmail
   getClient, first or cached) refreshes the last-used timestamp of the
   resolved account, so that no other entry has a more recent one. *)
C7_RetrievalRefreshesLastUsed ==
    (IsRetrieval(last) /\ last.err = "none") =>
        \A i \in DOMAIN registry :
            Entry(registry, last.email).lastUsed >= registry[i].lastUsed

(* C8: removeAccount(id) fails and changes nothing when id resolves to no
   entry; otherwise the resolved account's credential file and entry are
   gone, the active pointer is cleared exactly when it pointed at that
   account, and every other entry and credential file is unchanged. *)
C8_RemoveAccountFrame ==
    [][ last'.op = "removeAccount" =>
          IF \E e \in Emails : Designates(registry, last'.arg, e)
          THEN \E e \in Emails :
                   /\ Designates(registry, last'.arg, e)
                   /\ last'.err = "none"
                   /\ registry' = DeleteKey(registry, e)
                   /\ ~HasKey(registry', e)
                   /\ credFiles' = credFiles \ {Entry(registry, e).credentialsPath}
                   /\ activeFile' = IF activeFile = e THEN Null ELSE activeFile
          ELSE /\ last'.err = "AccountNotFound"
               /\ registry' = registry
               /\ credFiles' = credFiles
               /\ activeFile' = activeFile ]_vars

\* An account other than the active one has been removed.
C8_Witness ==
    /\ last.op = "removeAccount"
    /\ last.err = "none"
    /\ registry # <<>>
    /\ activeFile # Null

(* C9: setActiveAccount(id) sets the pointer to the canonical email of the
   account id designates (never the alias string) and refreshes that
   account's timestamp; when id designates no account it fails and changes
   neither the pointer nor the registry. *)
C9_SetActiveAccount ==
    [][ last'.op = "setActiveAccount" =>
          IF \E e \in Emails : Designates(registry, last'.arg, e)
          THEN \E e \in Emails :
                   /\ Designates(registry, last'.arg, e)
                   /\ last'.err = "none"
                   /\ activeFile' = e
                   /\ registry' = Touch(registry, e, clock')
                   /\ clock' >= Entry(registry, e).lastUsed
          ELSE /\ last'.err = "AccountNotFound"
               /\ activeFile' = activeFile
               /\ registry' = registry ]_vars

\* An account has been activated through its alias.
C9_Witness ==
    /\ last.op = "setActiveAccount"
    /\ last.err = "none"
    /\ last.arg # last.email
    /\ activeFile = last.email

(* C10: listAccounts returns every registry entry exactly once, with
   last-used timestamps non-increasing from first to last. *)
C10_ListAccountsOrdered ==
    LET accounts == listAccounts(registry)
    IN  /\ Len(accounts) = Len(registry)
        /\ \A i \in DOMAIN registry :
               Cardinality({j \in DOMAIN accounts : accounts[j] = registry[i]}) = 1
        /\ \A j \in 1..(Len(accounts) - 1) :
               accounts[j].lastUsed >= accounts[j + 1].lastUsed

\* The registry's key order is not the order listAccounts has to return.
C10_Witness ==
    /\ Len(registry) = 2
    /\ registry[1].lastUsed < registry[2].lastUsed

(* C11: active-pointer validity.  Within one manager, after any sequence of
   calls, successful or failing, the active pointer is unset or is the email
   of an entry currently in the registry. *)
C11_ActivePointerValid ==
    activeFile = Null \/ HasKey(registry, activeFile)

\* The active account has been removed while another account stays
\* registered.
C11_Witness ==
    /\ last.op = "removeAccount"
    /\ last.err = "none"
    /\ activeFile = Null
    /\ registry # <<>>

(* C12: an addAccount or setAlias call that fails with an alias collision
   has persisted and mutated nothing: credential files, registry in memory
   and on disk, and active pointer are what they were before the call. *)
C12_CollisionLeavesNoTrace ==
    [][ ( /\ last'.op \in {"addAccount", "setAlias"}
          /\ last'.err \in {"AliasIsEmail", "AliasInUse"} )
        => /\ credFiles' = credFiles
           /\ registry' = registry
           /\ diskRegistry' = diskRegistry
           /\ activeFile' = activeFile
           /\ clients' = clients ]_vars

\* addAccount of an account that has no credential file yet was refused
\* because of its alias.
C12_Witness ==
    /\ last.op = "addAccount"
    /\ last.err \in {"AliasIsEmail", "AliasInUse"}
    /\ ~HasKey(registry, last.arg)
    /\ credentialsPathOf(last.arg) \notin credFiles

(***************************************************************************)
(* Batch tools of the Gmail server (src/src/account-manager.ts):           *)
(* processBatches (lines 992-1020) driven by the batch_modify_emails and   *)
(* batch_delete_emails handlers (lines 1213-1317).  The Gmail API is a     *)
(* mailbox holding message ids and the set of messages that carry the      *)
(* requested label change.  A request for a message fails when the mailbox *)
(* does not hold the id, or transiently.                                   *)
(***************************************************************************)

\* Longest messageIds list of a batch tool call.
MaxItems == 5

\* Largest batchSize argument.
MaxBatchSize == 5

\* `validatedArgs.batchSize || 50`.
DefaultBatchSize == 50

\* How far below zero the loop index of processBatches is followed.
MaxBackward == 6

BatchHandlers == {"batch_modify_emails", "batch_delete_emails"}

Min(a, b) == IF a <= b THEN a ELSE b

\* items.slice(i, i + batchSize), i counted from 0: an index below zero
\* counts from the end of the array, and both indices are clamped to the
\* array.
Slice(items, i, batchSize) ==
    LET relative(k) == IF k < 0
                       THEN (IF Len(items) + k < 0 THEN 0 ELSE Len(items) + k)
                       ELSE Min(k, Len(items))
    IN  SubSeq(items, relative(i) + 1, relative(i + batchSize))

\* gmail.users.messages.modify / delete for one message id rejects.
requestRejects(b, id, transient) == id \notin b.messages \/ id \in transient

\* processFn(batch): Promise.all over one request per id.  Every request is
\* issued; the call rejects when one of them rejects, otherwise it resolves
\* to one result per id, in the order of the ids.
processFn(b, ids, transient) ==
    LET rejected == {id \in Range(ids) : requestRejects(b, id, transient)}
        done     == Range(ids) \ rejected
    IN  [rejected |-> rejected,
         results  |-> ids,
         b |-> [b EXCEPT
                  !.attempted = b.attempted \cup Range(ids),
                  !.labelled = IF b.handler = "batch_modify_emails"
                               THEN b.labelled \cup done ELSE b.labelled,
                  !.messages = IF b.handler = "batch_delete_emails"
                               THEN b.messages \ done ELSE b.messages]]

\* The catch branch of processBatches: every item of the failed batch is
\* processed on its own, and its outcome recorded.
RECURSIVE retryItems_stopAtFirstFailure(_, _, _)
retryItems_stopAtFirstFailure(b, ids, transient) ==
    IF ids = <<>> THEN b
    ELSE LET r == processFn(b, <<Head(ids)>>, transient)
         IN  IF r.rejected = {}
             THEN retryItems_stopAtFirstFailure(
                      [r.b EXCEPT !.successes = r.b.successes \o r.results],
                      Tail(ids), transient)
             ELSE [r.b EXCEPT
                      !.failures = Append(r.b.failures, Head(ids)),
                      !.retryRejected = r.b.retryRejected \cup {Head(ids)}]
RECURSIVE retryItems(_, _, _)
retryItems(b, ids, transient) ==
    IF ids = <<>> THEN b
    ELSE LET r == processFn(b, <<Head(ids)>>, transient)
         IN  retryItems(
                 IF r.rejected = {}
                 THEN [r.b EXCEPT !.successes = r.b.successes \o r.results]
                 ELSE [r.b EXCEPT
                          !.failures = Append(r.b.failures, Head(ids)),
                          !.retryRejected = r.b.retryRejected \cup {Head(ids)}],
                 Tail(ids), transient)

\* One iteration of the loop of processBatches: the whole batch first, the
\* items one by one when the batch call rejected.
processChunk_retryRejectedOnly(b, chunkTransient, retryTransient) ==
    LET ids == Slice(b.items, b.i, b.batchSize)
        r   == processFn(b, ids, chunkTransient)
        b1  == [r.b EXCEPT !.i = b.i + b.batchSize,
                           !.chunkRejected = r.b.chunkRejected \cup r.rejected]
    IN  IF r.rejected = {}
        THEN [b1 EXCEPT !.successes = b1.successes \o r.results]
        ELSE retryItems(b1, SelectSeq(ids, LAMBDA id : id \in r.rejected),
                        retryTransient)
processChunk(b, chunkTransient, retryTransient) ==
    LET ids == Slice(b.items, b.i, b.batchSize)
        r   == processFn(b, ids, chunkTransient)
        b1  == [r.b EXCEPT !.i = b.i + b.batchSize,
                           !.chunkRejected = r.b.chunkRejected \cup r.rejected]
    IN  IF r.rejected = {}
        THEN [b1 EXCEPT !.successes = b1.successes \o r.results]
        ELSE retryItems(b1, ids, retryTransient)

\* A batch tool is called with message ids 1..n; the mailbox holds some of
\* them.
BatchCall(handler, n, batchSize, held) ==
    /\ batch.pc = "idle"
    /\ batch' = [BatchIdle EXCEPT
                    !.pc = "loop", !.handler = handler,
                    !.items = [k \in 1..n |-> k],
                    !.batchSize = IF batchSize = 0 THEN DefaultBatchSize
                                  ELSE batchSize,
                    !.messages = held, !.messages0 = held]
    /\ UNCHANGED <<acctVars, tool, imapVars, asyncVars>>

\* The body of `for (let i = 0; i < items.length; i += batchSize)`.
BatchLoop ==
    /\ batch.pc = "loop"
    /\ batch.i < Len(batch.items)
    /\ batch.i > -MaxBackward
    /\ \E chunkTransient \in SUBSET Range(Slice(batch.items, batch.i, batch.batchSize)) :
       \E retryTransient \in SUBSET Range(Slice(batch.items, batch.i, batch.batchSize)) :
           batch' = processChunk(batch, chunkTransient, retryTransient)
    /\ UNCHANGED <<acctVars, tool, imapVars, asyncVars>>

\* `return { successes, failures }` and the handler's summary.
BatchReturn ==
    /\ batch.pc = "loop"
    /\ batch.i >= Len(batch.items)
    /\ batch' = [batch EXCEPT !.pc = "done"]
    /\ UNCHANGED <<acctVars, tool, imapVars, asyncVars>>

\* The Gmail server with its account manager at rest.
InitBatch ==
    /\ provider = "gmail"
    /\ AcctInit
    /\ batch = BatchIdle
    /\ tool = ToolIdle
    /\ imapClients = NoClients
    /\ tasks = NoTasks
    /\ imap = ImapNew
    /\ imapLast = ImapNoCall
    /\ imapCall = Null

NextBatch ==
    \/ \E handler \in BatchHandlers, n \in 0..MaxItems,
          batchSize \in 0..MaxBatchSize :
           \E held \in SUBSET (1..n) : BatchCall(handler, n, batchSize, held)
    \/ BatchLoop
    \/ BatchReturn

SpecBatch == InitBatch /\ [][NextBatch]_vars

(* C14: batch partial failure.  When batch_modify_emails processes a chunk
   of five items of which exactly one fails, in the whole-chunk attempt and
   in its individual retry, the result reports 4 successes and 1 failure,
   the failure names the failing item, and the label change has been applied
   to the 4 other items. *)
C14_BatchPartialFailure ==
    \A x \in 1..MaxItems :
        ( /\ batch.pc = "done"
          /\ batch.handler = "batch_modify_emails"
          /\ Len(batch.items) = 5
          /\ batch.batchSize >= 5
          /\ batch.chunkRejected = {x}
          /\ batch.retryRejected = {x} )
        => /\ Len(batch.successes) = 4
           /\ batch.failures = <<x>>
           /\ Range(batch.successes) = Range(batch.items) \ {x}
           /\ Range(batch.items) \ {x} \subseteq batch.labelled
           /\ x \notin batch.labelled

\* A chunk of five has been processed and one of its items failed twice.
C14_Witness ==
    /\ batch.pc = "done"
    /\ batch.handler = "batch_modify_emails"
    /\ Len(batch.items) = 5
    /\ batch.batchSize >= 5
    /\ Cardinality(batch.chunkRejected) = 1
    /\ batch.retryRejected = batch.chunkRejected

(* C15: for every input list and positive chunk size, whatever items fail,
   the successes and failures of processBatches partition the input: every
   item is reported exactly once, and every item of every chunk is
   attempted. *)
C15_BatchPartition ==
    batch.pc = "done" =>
        /\ Len(batch.successes) + Len(batch.failures) = Len(batch.items)
        /\ \A id \in Range(batch.items) :
               Cardinality({k \in DOMAIN batch.successes : batch.successes[k] = id})
             + Cardinality({k \in DOMAIN batch.failures : batch.failures[k] = id}) = 1
        /\ batch.attempted = Range(batch.items)

\* A run of several chunks in which an early chunk had a failing item and a
\* later chunk was still processed.
C15_Witness ==
    /\ batch.pc = "done"
    /\ batch.batchSize < Len(batch.items)
    /\ batch.failures # <<>>
    /\ batch.failures[1] <= batch.batchSize
    /\ batch.successes # <<>>
    /\ batch.successes[Len(batch.successes)] > batch.batchSize

(* C16: in batch_delete_emails the recorded outcome of an item matches what
   happened to it: a message deleted during the operation is reported as a
   success, and only messages that were not deleted are reported as
   failures. *)
C16_BatchDeleteOutcome ==
    ( /\ batch.pc = "done"
      /\ batch.handler = "batch_delete_emails" )
    => LET deleted == batch.messages0 \ batch.messages
       IN  /\ deleted \subseteq Range(batch.successes)
           /\ Range(batch.failures) \cap deleted = {}

(***************************************************************************)
(* ImapClient (src/packages/icloud/src/imap-client.ts).                    *)
(*                                                                         *)
(* imap.client is the ImapFlow handle: "null", or a handle whose `usable`  *)
(* flag is true ("usable") or false ("unusable").  imap.currentMailbox is  *)
(* the cached mailbox name, imap.selected the mailbox the server has open  *)
(* on the connection.  A method is an operator on a context                *)
(* [c, cmds, err]: the client state, the protocol commands issued so far   *)
(* and the pending exception.  The server's answers are the record `srv`.  *)
(* Strings the code converts or searches are sequences of one-character    *)
(* strings.                                                                *)
(***************************************************************************)

\* A JavaScript number that may be NaN: <<n>> for the integer n, <<>> for
\* NaN.
NaN == <<>>

Number(n) == <<n>>

Digits == <<"0", "1", "2", "3", "4", "5", "6", "7", "8", "9">>

IsDigit(ch) == \E d \in DOMAIN Digits : Digits[d] = ch

DigitValue(ch) == (CHOOSE d \in DOMAIN Digits : Digits[d] = ch) - 1

\* The longest prefix of s made of decimal digits.
RECURSIVE DigitPrefix(_)
DigitPrefix(s) ==
    IF s = <<>> \/ ~IsDigit(Head(s)) THEN <<>>
    ELSE <<Head(s)>> \o DigitPrefix(Tail(s))

RECURSIVE DigitsValue(_, _)
DigitsValue(s, acc) ==
    IF s = <<>> THEN acc
    ELSE DigitsValue(Tail(s), 10 * acc + DigitValue(Head(s)))

RECURSIVE TrimStart(_)
TrimStart(s) ==
    IF s # <<>> /\ Head(s) = " " THEN TrimStart(Tail(s)) ELSE s

\* parseInt(s, 10): leading blanks are skipped, a sign is accepted, the
\* longest run of digits is read, anything after it is ignored; NaN when
\* there is no digit.
parseInt(s) ==
    LET t    == TrimStart(s)
        neg  == t # <<>> /\ Head(t) = "-"
        body == IF t # <<>> /\ Head(t) \in {"-", "+"} THEN Tail(t) ELSE t
        ds   == DigitPrefix(body)
    IN  IF ds = <<>> THEN NaN
        ELSE IF neg THEN Number(0 - DigitsValue(ds, 0))
        ELSE Number(DigitsValue(ds, 0))

\* Number.prototype.toString() of a non-negative integer.
RECURSIVE toString(_)
toString(n) ==
    IF n < 10 THEN <<Digits[n + 1]>>
    ELSE toString(n \div 10) \o <<Digits[(n % 10) + 1]>>

toLowerCaseChar(ch) ==
    CASE ch = "A" -> "a"
      [] ch = "B" -> "b"
      [] ch = "C" -> "c"
      [] ch = "D" -> "d"
      [] ch = "E" -> "e"
      [] ch = "F" -> "f"
      [] ch = "G" -> "g"
      [] ch = "H" -> "h"
      [] ch = "I" -> "i"
      [] ch = "J" -> "j"
      [] ch = "K" -> "k"
      [] ch = "L" -> "l"
      [] ch = "M" -> "m"
      [] ch = "N" -> "n"
      [] ch = "O" -> "o"
      [] ch = "P" -> "p"
      [] ch = "Q" -> "q"
      [] ch = "R" -> "r"
      [] ch = "S" -> "s"
      [] ch = "T" -> "t"
      [] ch = "U" -> "u"
      [] ch = "V" -> "v"
      [] ch = "W" -> "w"
      [] ch = "X" -> "x"
      [] ch = "Y" -> "y"
      [] ch = "Z" -> "z"
      [] OTHER -> ch

toLowerCase(s) == [k \in DOMAIN s |-> toLowerCaseChar(s[k])]

\* String.prototype.includes.
includes(s, sub) ==
    \E k \in 0..(Len(s) - Len(sub)) : SubSeq(s, k + 1, k + Len(sub)) = sub

\* Mailbox names passed to the methods; the code only compares them.
Folders == {"INBOX", "Archive"}

\* `folder || 'INBOX'`.
DefaultFolder == "INBOX"

\* What the server does during one method call: whether the first and the
\* second connection attempt succeed, whether LOGOUT succeeds, which
\* protocol command is rejected, whether the rejection leaves the
\* connection dead, and whether a rejected mailboxOpen leaves the connection
\* with no mailbox selected (the server deselects the open mailbox before it
\* attempts the new selection).
CommandNames ==
    {"mailboxOpen", "search", "fetch", "fetchOne", "list", "messageMove",
     "messageFlagsAdd", "messageDelete", "append"}

ServerBehaviours ==
    [connect1 : BOOLEAN, connect2 : BOOLEAN, logout : BOOLEAN,
     fail : CommandNames \cup {"none"}, drops : BOOLEAN,
     deselects : BOOLEAN]

Ctx(c) == [c |-> c, cmds |-> <<>>, err |-> "none", dropped |-> FALSE]

Ok(x) == x.err = "none"

\* A protocol command on the ImapFlow handle.
Command(x, cmd, srv) ==
    IF ~Ok(x) THEN x
    ELSE IF srv.fail = cmd[1]
         THEN [x EXCEPT !.cmds = Append(@, cmd), !.err = cmd[1],
                        !.dropped = srv.drops,
                        !.c.client = IF srv.drops THEN "unusable" ELSE @,
                        !.c.selected = IF cmd[1] = "mailboxOpen"
                                          /\ srv.deselects
                                       THEN Null ELSE @]
         ELSE [x EXCEPT !.cmds = Append(@, cmd)]

\* connect(): the handle is stored before the connection is attempted.
connect(x, ok) ==
    IF ~Ok(x) \/ x.c.client # "null" THEN x
    ELSE [x EXCEPT !.cmds = Append(@, <<"connect">>),
                   !.err = IF ok THEN "none" ELSE "connect",
                   !.c.client = IF ok THEN "usable" ELSE "unusable",
                   !.c.selected = Null]

disconnect(x, srv) ==
    IF ~Ok(x) \/ x.c.client = "null" THEN x
    ELSE IF srv.logout
         THEN [x EXCEPT !.cmds = Append(@, <<"logout">>),
                        !.c.client = "null",
                        !.c.currentMailbox = Null,
                        !.c.selected = Null]
         ELSE [x EXCEPT !.cmds = Append(@, <<"logout">>), !.err = "logout"]

ensureConnected(x, srv) ==
    IF ~Ok(x) THEN x
    ELSE IF x.c.client = "null" THEN connect(x, srv.connect1)
    ELSE IF x.c.client = "usable" THEN x
    ELSE LET t == connect(disconnect(x, srv), srv.connect1)
         IN  IF Ok(t) THEN t
             ELSE connect(disconnect([t EXCEPT !.err = "none"], srv),
                          srv.connect2)

selectMailbox_alwaysOpens(x, mailbox, srv) ==
    LET y == ensureConnected(x, srv)
        z == Command(y, <<"mailboxOpen", mailbox>>, srv)
    IN  IF Ok(z) THEN [z EXCEPT !.c.currentMailbox = mailbox,
                                !.c.selected = mailbox]
        ELSE z
selectMailbox(x, mailbox, srv) ==
    LET y == ensureConnected(x, srv)
    IN  IF ~Ok(y) \/ y.c.currentMailbox = mailbox THEN y
        ELSE LET z == Command(y, <<"mailboxOpen", mailbox>>, srv)
             IN  IF Ok(z) THEN [z EXCEPT !.c.currentMailbox = mailbox,
                                         !.c.selected = mailbox]
                 ELSE z

\* The result of a method: the context it ends in, what it returns, and the
\* part of the server's reply it has read.
Outcome(x, result, reply) == [x |-> x, result |-> result, reply |-> reply]

\* Largest UID in a mailbox.
MaxUid == 3

\* Largest maxResults argument.
MaxResultsArg == 3

\* `options.maxResults || 50`.
DefaultMaxResults == 50

Uids == 1..MaxUid

Max(S) == CHOOSE m \in S : \A n \in S : n <= m

\* searchResult.sort((a, b) => b - a)
RECURSIVE sortDescending(_)
sortDescending(S) ==
    IF S = {} THEN <<>>
    ELSE <<Max(S)>> \o sortDescending(S \ {Max(S)})

\* An optional number: <<>> when the property is absent, <<n>> otherwise.
OptionalNumbers(S) == {<<>>} \cup {<<n>> : n \in S}

maxResultsOf(maxResults) ==
    IF maxResults = <<>> \/ maxResults[1] = 0 THEN DefaultMaxResults
    ELSE maxResults[1]

\* sort(...).slice(0, maxResults)
sortedUids(matching, maxResults) ==
    SubSeq(sortDescending(matching), 1,
           Min(maxResultsOf(maxResults), Cardinality(matching)))

\* The sequences in which the server can deliver the messages of S.
Deliveries(S) ==
    {d \in [1..Cardinality(S) -> S] : \A j, k \in DOMAIN d : j # k => d[j] # d[k]}

\* The loop over the fetch iterator: one entry per delivered message that
\* has an envelope, in the order of delivery.
RECURSIVE collectResults(_, _)
collectResults(delivery, noEnvelope) ==
    IF delivery = <<>> THEN <<>>
    ELSE IF Head(delivery) \in noEnvelope
         THEN collectResults(Tail(delivery), noEnvelope)
         ELSE <<[uid |-> toString(Head(delivery))]>>
              \o collectResults(Tail(delivery), noEnvelope)

NoReply == [matching |-> {}, delivery |-> <<>>, noEnvelope |-> {}]

searchEmails(c, options, srv, reply) ==
    LET folder == IF options.folder = Undefined THEN DefaultFolder
                  ELSE options.folder
        x1 == selectMailbox(ensureConnected(Ctx(c), srv), folder, srv)
        x2 == Command(x1, <<"search">>, srv)
        requested == sortedUids(reply.matching, options.maxResults)
        x3 == Command(x2, <<"fetch", requested>>, srv)
    IN  IF ~Ok(x2) THEN Outcome(x2, <<>>, NoReply)
        ELSE IF reply.matching = {} \/ requested = <<>>
             THEN Outcome(x2, <<>>, [NoReply EXCEPT !.matching = reply.matching])
        ELSE IF ~Ok(x3)
             THEN Outcome([x3 EXCEPT !.c.currentMailbox = Null,
                                     !.err = "Failed to fetch emails"],
                          <<>>, [NoReply EXCEPT !.matching = reply.matching])
        ELSE Outcome(x3, collectResults(reply.delivery, reply.noEnvelope),
                     reply)

\* A method of the ImapClient has run to its return or its exception.
ImapApply(op, mailbox, args, r) ==
    /\ imap' = r.x.c
    /\ imapLast' = [op |-> op, calls |-> (imapLast.calls + 1) % 2,
                    mailbox |-> mailbox,
                    cached |-> imap.currentMailbox, cmds |-> r.x.cmds,
                    err |-> r.x.err, dropped |-> r.x.dropped, args |-> args,
                    reply |-> r.reply,
                    result |-> r.result]
    /\ UNCHANGED <<acctVars, batch, tool, imapCall, asyncVars>>

SearchEmails(options, srv, reply) ==
    ImapApply("searchEmails",
              IF options.folder = Undefined THEN DefaultFolder
              ELSE options.folder,
              options, searchEmails(imap, options, srv, reply))

\* The network connection of a connected client goes away.
ConnectionLost ==
    /\ imap.client = "usable"
    /\ imap' = [imap EXCEPT !.client = "unusable"]
    /\ UNCHANGED <<acctVars, batch, tool, imapLast, imapCall, asyncVars>>

\* Client states a method can be called in: a client just constructed, and
\* a connected client with INBOX open.
ImapConnected(mailbox) ==
    [client |-> "usable", currentMailbox |-> mailbox, selected |-> mailbox]

ImapStartStates == {ImapNew, ImapConnected("INBOX")}

\* Server behaviours for one call in which connecting, if needed, succeeds or
\* fails at once and at most the named commands are rejected.
ServersRejecting(commands) ==
    {srv \in ServerBehaviours :
        /\ srv.connect2 /\ srv.logout /\ ~srv.drops
        /\ srv.deselects => srv.fail = "mailboxOpen"
        /\ srv.fail \in commands \cup {"none"}}

SearchCalls ==
    {call \in [op : {"searchEmails"},
               options : [folder : Folders \cup {Undefined},
                          maxResults : OptionalNumbers(0..MaxResultsArg)],
               srv : ServersRejecting({"fetch"}),
               reply : [matching : SUBSET Uids,
                        delivery : UNION {Deliveries(S) : S \in SUBSET Uids},
                        noEnvelope : {S \in SUBSET Uids : Cardinality(S) <= 1}]] :
        /\ Range(call.reply.delivery)
             = Range(sortedUids(call.reply.matching, call.options.maxResults))
        /\ call.reply.noEnvelope \subseteq Range(call.reply.delivery)}

\* One search_emails request reaches the client.
InitSearch ==
    /\ provider = "icloud"
    /\ AcctInit
    /\ batch = BatchIdle
    /\ tool = ToolIdle
    /\ imapClients = NoClients
    /\ tasks = NoTasks
    /\ imap \in ImapStartStates
    /\ imapLast = ImapNoCall
    /\ imapCall \in SearchCalls

NextSearch ==
    /\ imapLast.op = "new"
    /\ SearchEmails(imapCall.options, imapCall.srv, imapCall.reply)

SpecSearch == InitSearch /\ [][NextSearch]_vars

(* C13: for every requested maximum N >= 0 and every set of matching UIDs,
   in whatever order the server delivers the fetched messages, searchEmails
   returns at most N entries, and the UIDs of the entries are strictly
   descending in the order returned. *)
C13_SearchBoundedDescending ==
    ( /\ imapLast.op = "searchEmails"
      /\ imapLast.err = "none"
      /\ imapLast.args.maxResults # <<>> )
    => /\ Len(imapLast.result) <= imapLast.args.maxResults[1]
       /\ \A j, k \in DOMAIN imapLast.result :
              j < k => parseInt(imapLast.result[j].uid)[1]
                         > parseInt(imapLast.result[k].uid)[1]

(* ------------------------------ deleteEmail --------------------------- *)

\* The literals of the trash-folder test.
TrashMarker == "\\Trash"

TrashWord == <<"t", "r", "a", "s", "h">>

DeletedMessages ==
    <<"D", "e", "l", "e", "t", "e", "d", " ", "M", "e", "s", "s", "a", "g", "e", "s">>

\* Longest folder list the server returns.
MaxFolders == 2

FolderPaths ==
    {<<"I", "N", "B", "O", "X">>,
     <<"M", "y", " ", "T", "R", "A", "S", "H">>,
     DeletedMessages,
     <<"d", "e", "l", "e", "t", "e", "d", " ", "m", "e", "s", "s", "a", "g", "e", "s">>}

FolderInfos == [path : FolderPaths, specialUse : {Undefined, TrashMarker}]

FolderLists == UNION {[1..n -> FolderInfos] : n \in 0..MaxFolders}

\* UID arguments as the tools pass them: strings.
UidStrings == {<<"2">>, <<"x">>}

isTrashFolder_specialUseOnly(f) == f.specialUse = TrashMarker
isTrashFolder(f) ==
    \/ f.specialUse = TrashMarker
    \/ includes(toLowerCase(f.path), TrashWord)
    \/ f.path = DeletedMessages

\* folders.find(...): <<f>> for the first folder f passing the test, <<>>
\* for undefined.
findTrashFolder(folders) ==
    LET hits == {k \in DOMAIN folders : isTrashFolder(folders[k])}
    IN  IF hits = {} THEN <<>>
        ELSE <<folders[CHOOSE k \in hits : \A j \in hits : k <= j]>>

\* listFolders(): ensureConnected, then LIST.
listFolders(x, srv) == Command(ensureConnected(x, srv), <<"list">>, srv)

\* messageFlagsAdd(uid, ['\\Deleted']) followed by messageDelete(uid).
flagAndExpunge(x, uidNum, srv) ==
    Command(Command(x, <<"messageFlagsAdd", uidNum, "\\Deleted">>, srv),
            <<"messageDelete", uidNum>>, srv)

deleteEmail(c, uid, folder, permanent, srv, folders) ==
    LET mailbox == IF folder = Undefined THEN DefaultFolder ELSE folder
        x1 == selectMailbox(ensureConnected(Ctx(c), srv), mailbox, srv)
        uidNum == parseInt(uid)
        x2 == listFolders(x1, srv)
        trashFolder == findTrashFolder(folders)
        x3 == IF permanent THEN flagAndExpunge(x1, uidNum, srv)
              ELSE IF ~Ok(x2) THEN x2
              ELSE IF trashFolder # <<>>
                   THEN Command(x2,
                                <<"messageMove", uidNum, trashFolder[1].path>>,
                                srv)
                   ELSE flagAndExpunge(x2, uidNum, srv)
        read == IF ~permanent /\ Ok(x2) THEN folders ELSE <<>>
    IN  Outcome(IF Ok(x3) THEN [x3 EXCEPT !.c.currentMailbox = Null] ELSE x3,
                <<>>, read)

DeleteEmail(uid, folder, permanent, srv, folders) ==
    ImapApply("deleteEmail",
              IF folder = Undefined THEN DefaultFolder ELSE folder,
              [uid |-> uid, folder |-> folder, permanent |-> permanent],
              deleteEmail(imap, uid, folder, permanent, srv, folders))

DeleteCalls ==
    [op : {"deleteEmail"}, uid : UidStrings, folder : Folders \cup {Undefined},
     permanent : BOOLEAN, srv : ServersRejecting({"list", "messageMove"}),
     folders : FolderLists]

\* One delete_email request reaches the client.
InitDelete ==
    /\ provider = "icloud"
    /\ AcctInit
    /\ batch = BatchIdle
    /\ tool = ToolIdle
    /\ imapClients = NoClients
    /\ tasks = NoTasks
    /\ imap \in ImapStartStates
    /\ imapLast = ImapNoCall
    /\ imapCall \in DeleteCalls

NextDelete ==
    /\ imapLast.op = "new"
    /\ DeleteEmail(imapCall.uid, imapCall.folder, imapCall.permanent,
                   imapCall.srv, imapCall.folders)

SpecDelete == InitDelete /\ [][NextDelete]_vars

\* The server accepts the connection and every command of the call.
ServerCooperates(srv) ==
    srv.connect1 /\ srv.connect2 /\ srv.logout /\ srv.fail = "none"

\* The method issued a command of the given name.
Issued(name) == \E k \in DOMAIN imapLast.cmds : imapLast.cmds[k][1] = name

\* A folder the claim calls trash-like.
TrashLike(f) ==
    \/ f.specialUse = "\\Trash"
    \/ \E k \in 1..Len(f.path) :
           k + 4 <= Len(f.path)
           /\ toLowerCase(SubSeq(f.path, k, k + 4)) = TrashWord
    \/ f.path = DeletedMessages

(* C17: trash fallback.  deleteEmail(uid, folder, permanent = false) on a
   folder list with no trash-like folder flags the message \Deleted,
   expunges it and returns without error; when a trash-like folder exists
   the message is moved to such a folder and is not expunged. *)
C17_TrashFallback ==
    ( /\ imapLast.op = "deleteEmail"
      /\ ~imapLast.args.permanent
      /\ ServerCooperates(imapCall.srv) )
    => LET folders == imapCall.folders
           trash == {k \in DOMAIN folders : TrashLike(folders[k])}
       IN  /\ imapLast.err = "none"
           /\ trash = {} =>
                /\ ~Issued("messageMove")
                /\ \E j, k \in DOMAIN imapLast.cmds :
                     /\ j < k
                     /\ imapLast.cmds[j]
                          = <<"messageFlagsAdd", parseInt(imapLast.args.uid),
                              "\\Deleted">>
                     /\ imapLast.cmds[k]
                          = <<"messageDelete", parseInt(imapLast.args.uid)>>
           /\ trash # {} =>
                /\ ~Issued("messageDelete")
                /\ \E k \in DOMAIN imapLast.cmds, t \in trash :
                     imapLast.cmds[k]
                       = <<"messageMove", parseInt(imapLast.args.uid),
                           folders[t].path>>

\* A non-permanent delete has fallen back to flag and expunge although the
\* server lists folders.
C17_Witness ==
    /\ imapLast.op = "deleteEmail"
    /\ ~imapLast.args.permanent
    /\ imapLast.err = "none"
    /\ imapLast.reply # <<>>
    /\ Issued("messageDelete")

(* --------------------------- downloadAttachment ----------------------- *)

\* Most attachments in a message.
MaxAttachments == 2

\* An optional string: <<>> when the property is absent, <<s>> otherwise.
OptionalStrings(S) == {<<>>} \cup {<<str>> : str \in S}

\* Content-ids and filenames of attachments.
AttachmentNames == {<<"0">>, <<"c">>}

\* Identifiers a caller passes as partId.
PartIds == {<<"0">>, <<"1">>, <<"c">>, <<"x">>}

\* The attachments mailparser finds in a message; the bytes of the k-th
\* attachment are written k.
AttachmentLists ==
    UNION {{atts \in [1..n -> [contentId : OptionalStrings(AttachmentNames),
                               filename : OptionalStrings(AttachmentNames),
                               content : 1..n]] :
               \A k \in 1..n : atts[k].content = k} : n \in 0..MaxAttachments}

\* The answer to fetchOne: no message, or a message with its attachments.
NoMessage == [found |-> FALSE, attachments |-> <<>>]

FetchOneReplies ==
    {NoMessage} \cup [found : {TRUE}, attachments : AttachmentLists]

\* attachments.find(att => att.contentId === partId || att.filename === partId)
findAttachment(attachments, partId) ==
    LET hits == {k \in DOMAIN attachments :
                    \/ attachments[k].contentId = <<partId>>
                    \/ attachments[k].filename = <<partId>>}
    IN  IF hits = {} THEN <<>>
        ELSE <<attachments[CHOOSE k \in hits : \A j \in hits : k <= j]>>

\* attachments[index] for the value parseInt returned.
attachmentByIndex(attachments, index) ==
    IF index # NaN /\ (index[1] + 1) \in DOMAIN attachments
    THEN <<attachments[index[1] + 1]>> ELSE <<>>

downloadAttachment(c, uid, partId, folder, srv, reply) ==
    LET mailbox == IF folder = Undefined THEN DefaultFolder ELSE folder
        x1 == selectMailbox(ensureConnected(Ctx(c), srv), mailbox, srv)
        uidNum == parseInt(uid)
        x2 == Command(x1, <<"fetchOne", uidNum>>, srv)
        attachment == findAttachment(reply.attachments, partId)
        index == parseInt(partId)
        byIndex == attachmentByIndex(reply.attachments, index)
    IN  IF ~Ok(x2) THEN Outcome(x2, <<>>, NoMessage)
        ELSE IF ~reply.found
             THEN Outcome([x2 EXCEPT !.err = "Message not found"], <<>>, reply)
        ELSE IF attachment # <<>>
             THEN Outcome(x2,
                          [content |-> attachment[1].content,
                           filename |-> IF attachment[1].filename = <<>>
                                        THEN <<"attachment">>
                                        ELSE attachment[1].filename],
                          reply)
        ELSE IF byIndex # <<>>
             THEN Outcome(x2,
                          [content |-> byIndex[1].content,
                           filename |-> IF byIndex[1].filename = <<>>
                                        THEN <<"attachment-">> \o toString(index[1])
                                        ELSE byIndex[1].filename],
                          reply)
        ELSE Outcome([x2 EXCEPT !.err = "Attachment not found"], <<>>, reply)

DownloadAttachment(uid, partId, folder, srv, reply) ==
    ImapApply("downloadAttachment",
              IF folder = Undefined THEN DefaultFolder ELSE folder,
              [uid |-> uid, partId |-> partId, folder |-> folder],
              downloadAttachment(imap, uid, partId, folder, srv, reply))

DownloadCalls ==
    [op : {"downloadAttachment"}, uid : UidStrings, partId : PartIds,
     folder : Folders \cup {Undefined}, srv : ServersRejecting({"fetchOne"}),
     reply : FetchOneReplies]

\* One download_attachment request reaches the client.
InitDownload ==
    /\ provider = "icloud"
    /\ AcctInit
    /\ batch = BatchIdle
    /\ tool = ToolIdle
    /\ imapClients = NoClients
    /\ tasks = NoTasks
    /\ imap \in ImapStartStates
    /\ imapLast = ImapNoCall
    /\ imapCall \in DownloadCalls

NextDownload ==
    /\ imapLast.op = "new"
    /\ DownloadAttachment(imapCall.uid, imapCall.partId, imapCall.folder,
                          imapCall.srv, imapCall.reply)

SpecDownload == InitDownload /\ [][NextDownload]_vars

\* downloadAttachment has fetched the message and looked for the attachment.
AttachmentLookedUp ==
    /\ imapLast.op = "downloadAttachment"
    /\ imapLast.err \in {"none", "Attachment not found"}

(* C18: downloadAttachment applies a three-tier precedence over the whole
   attachment list: an attachment whose content-id equals the identifier is
   returned if there is one; otherwise one whose filename equals it;
   otherwise the attachment at the position parsed from the identifier;
   and the call fails with attachment-not-found if no tier matches. *)
C18_ThreeTierPrecedence ==
    AttachmentLookedUp =>
        LET atts   == imapLast.reply.attachments
            id     == imapLast.args.partId
            byCid  == {k \in DOMAIN atts : atts[k].contentId = <<id>>}
            byName == {k \in DOMAIN atts : atts[k].filename = <<id>>}
            index  == parseInt(id)
        IN  IF byCid # {}
            THEN imapLast.err = "none" /\ imapLast.result.content \in byCid
            ELSE IF byName # {}
            THEN imapLast.err = "none" /\ imapLast.result.content \in byName
            ELSE IF index # NaN /\ (index[1] + 1) \in DOMAIN atts
            THEN imapLast.err = "none"
                 /\ imapLast.result.content = index[1] + 1
            ELSE imapLast.err = "Attachment not found"

(* C19: attachment identifier fallback.  For a message whose first
   attachment has neither content-id nor filename, downloadAttachment with
   identifier "0" succeeds and returns the bytes of that first attachment,
   whatever other attachments the message carries. *)
C19_PositionalFallback ==
    ( /\ AttachmentLookedUp
      /\ imapLast.args.partId = <<"0">>
      /\ imapLast.reply.attachments # <<>>
      /\ imapLast.reply.attachments[1].contentId = <<>>
      /\ imapLast.reply.attachments[1].filename = <<>> )
    => /\ imapLast.err = "none"
       /\ imapLast.result.content = 1

(* ------------------- readEmail, markEmailsRead, moveEmail ------------- *)

\* parsed.attachments mapped to { partId: att.contentId || index.toString() }:
\* an absent and an empty content-id are both falsy.
parseAttachments(attachments) ==
    [k \in DOMAIN attachments |->
        [partId |-> IF attachments[k].contentId \in {<<>>, << <<>> >>}
                    THEN toString(k - 1)
                    ELSE attachments[k].contentId[1]]]

readEmail(c, uid, folder, srv, reply) ==
    LET mailbox == IF folder = Undefined THEN DefaultFolder ELSE folder
        x1 == selectMailbox(ensureConnected(Ctx(c), srv), mailbox, srv)
        x2 == Command(x1, <<"fetchOne", parseInt(uid)>>, srv)
    IN  IF ~Ok(x2) THEN Outcome(x2, <<>>, NoMessage)
        ELSE IF ~reply.found
             THEN Outcome([x2 EXCEPT !.err = "Message not found"], <<>>, reply)
        ELSE Outcome(x2,
                     [folder |-> mailbox,
                      attachments |-> parseAttachments(reply.attachments)],
                     reply)

\* uids.map(uid => parseInt(uid, 10)).filter(n => !Number.isNaN(n))
uidNumbersOf_unfiltered(uids) == [k \in DOMAIN uids |-> parseInt(uids[k])]
uidNumbersOf(uids) ==
    SelectSeq([k \in DOMAIN uids |-> parseInt(uids[k])], LAMBDA n : n # NaN)

markEmailsRead(c, uids, folder, srv) ==
    LET mailbox == IF folder = Undefined THEN DefaultFolder ELSE folder
        x1 == selectMailbox(ensureConnected(Ctx(c), srv), mailbox, srv)
        uidNumbers == uidNumbersOf(uids)
    IN  IF ~Ok(x1) \/ uids = <<>> THEN Outcome(x1, <<>>, <<>>)
        ELSE IF uidNumbers = <<>>
             THEN Outcome([x1 EXCEPT !.err = "No valid UIDs provided"],
                          <<>>, <<>>)
        ELSE Outcome(Command(x1, <<"messageFlagsAdd", uidNumbers, "\\Seen">>,
                             srv),
                     <<>>, <<>>)

moveEmail(c, uid, sourceFolder, destinationFolder, srv) ==
    LET x1 == selectMailbox(ensureConnected(Ctx(c), srv), sourceFolder, srv)
        x2 == Command(x1, <<"messageMove", parseInt(uid), destinationFolder>>,
                      srv)
    IN  Outcome(IF Ok(x2) THEN [x2 EXCEPT !.c.currentMailbox = Null] ELSE x2,
                <<>>, <<>>)

ReadEmail(uid, folder, srv, reply) ==
    ImapApply("readEmail",
              IF folder = Undefined THEN DefaultFolder ELSE folder,
              [uid |-> uid, folder |-> folder],
              readEmail(imap, uid, folder, srv, reply))

MarkEmailsRead(uids, folder, srv) ==
    ImapApply("markEmailsRead",
              IF folder = Undefined THEN DefaultFolder ELSE folder,
              [uids |-> uids, folder |-> folder],
              markEmailsRead(imap, uids, folder, srv))

MoveEmail(uid, sourceFolder, destinationFolder, srv) ==
    ImapApply("moveEmail", sourceFolder,
              [uid |-> uid, sourceFolder |-> sourceFolder,
               destinationFolder |-> destinationFolder],
              moveEmail(imap, uid, sourceFolder, destinationFolder, srv))

\* getImapClient connects a client it has just constructed.
Connect(srv) ==
    /\ imap.client = "null"
    /\ ImapApply("connect", Null, <<>>, 
                 Outcome(connect(Ctx(imap), srv.connect1), <<>>, <<>>))

(* ---------------- one ImapClient serving a sequence of calls ---------- *)

\* The server behaviours that differ for a call made in client state c and
\* issuing the given commands: an answer the call never asks for (a second
\* connection attempt after a first that succeeds, a command after a
\* connection that is not made) has one value.
ServersFor(c, commands) ==
    {srv \in ServerBehaviours :
        /\ srv.fail \in commands \cup {"none"}
        /\ srv.fail = "none" => ~srv.drops
        /\ srv.deselects => srv.fail = "mailboxOpen" /\ ~srv.drops
        /\ c.client = "usable" => srv.connect1 /\ srv.connect2 /\ srv.logout
        /\ c.client = "null" => srv.connect2 /\ srv.logout
        /\ srv.connect1 => srv.connect2
        /\ ~srv.logout => srv.connect1
        /\ (~srv.logout \/ ~srv.connect2
              \/ (c.client = "null" /\ ~srv.connect1)) => srv.fail = "none"}

FolderArgs == Folders \cup {Undefined}

\* A trash folder as iCloud lists it.
ICloudTrash == [path |-> DeletedMessages, specialUse |-> TrashMarker]

OneAttachment == <<[contentId |-> <<>>, filename |-> <<>>, content |-> 1]>>


\* The six operations of the claim on mailbox reselection.
MailboxOperations ==
    {"searchEmails", "readEmail", "markEmailsRead", "moveEmail",
     "deleteEmail", "downloadAttachment"}

\* Number of mailbox-open commands a call issued.
Opens(call) ==
    Cardinality({k \in DOMAIN call.cmds : call.cmds[k][1] = "mailboxOpen"})

\* The call did not find a usable connection: it logged out or connected.
Reconnected(call) ==
    \E k \in DOMAIN call.cmds : call.cmds[k][1] \in {"connect", "logout"}

\* This step is an operation on the folder of the operation before it, and
\* it did not reconnect.
ConsecutiveOnSameFolder ==
    /\ imapLast.op \in MailboxOperations
    /\ imapLast'.op \in MailboxOperations
    /\ imapLast'.calls # imapLast.calls
    /\ imapLast'.mailbox = imapLast.mailbox
    /\ ~Reconnected(imapLast')

GmailTools ==
    {"send_email", "draft_email", "read_email", "search_emails",
     "modify_email", "delete_email", "list_email_labels",
     "batch_modify_emails", "batch_delete_emails", "modify_thread",
     "batch_modify_threads", "create_label", "update_label", "delete_label",
     "get_or_create_label", "create_filter", "list_filters", "get_filter",
     "delete_filter", "create_filter_from_template", "download_attachment",
     "list_accounts", "switch_account", "get_active_account",
     "remove_account", "set_account_alias"}

ICloudTools ==
    {"send_email", "draft_email", "read_email", "search_emails", "move_email",
     "move_emails", "delete_email", "download_attachment", "mark_emails_read",
     "list_folders", "create_folder", "list_accounts", "switch_account",
     "get_active_account"}

ToolsOf(server) == IF server = "gmail" THEN GmailTools ELSE ICloudTools

\* Where the body of a tool's case throws, if it does: while parsing the
\* arguments, while resolving the account, or in the call to the backend.
FailureKinds == {"validation", "account", "backend"}

\* The flags of a response a tool returns from its own case body.
Response(text, isError) == [text |-> text, isError |-> isError]

SuccessResponse(name) == Response(<<"Successfully", name>>, <<>>)

\* The catch block of the Gmail handler.
gmailCatch(message) == Response(<<"Error: ", message>>, <<>>)

\* The catch block of the iCloud handler.
icloudCatch(message) == Response(<<"Error: ", message>>, <<TRUE>>)

\* switch (name) inside try / catch.
gmailCallTool(name, failure) ==
    IF name \notin GmailTools THEN gmailCatch("Unknown tool")
    ELSE IF name = "download_attachment" /\ failure = "backend"
         THEN Response(<<"Failed to download attachment: ", failure>>, <<>>)
    ELSE IF failure # "none" THEN gmailCatch(failure)
    ELSE SuccessResponse(name)

icloudCallTool(name, failure) ==
    IF name \notin ICloudTools THEN icloudCatch("Unknown tool")
    ELSE IF failure # "none" THEN icloudCatch(failure)
    ELSE SuccessResponse(name)

\* A tool call is dispatched and its response returned to the client.
CallTool(name, failure) ==
    /\ tool.pc = "idle"
    /\ tool' = [pc |-> "returned", server |-> provider, name |-> name,
                args |-> <<>>, env |-> [failure |-> failure],
                effect |-> <<>>,
                response |-> IF provider = "gmail"
                             THEN gmailCallTool(name, failure)
                             ELSE icloudCallTool(name, failure)]
    /\ UNCHANGED <<acctVars, batch, imapVars, asyncVars>>

InitDispatch ==
    /\ provider \in Providers
    /\ AcctInit
    /\ batch = BatchIdle
    /\ tool = ToolIdle
    /\ imapClients = NoClients
    /\ tasks = NoTasks
    /\ imap = ImapNew
    /\ imapLast = ImapNoCall
    /\ imapCall = Null

NextDispatch ==
    \E name \in GmailTools \cup ICloudTools \cup {"no_such_tool"},
       failure \in FailureKinds \cup {"none"} :
        CallTool(name, failure)

SpecDispatch == InitDispatch /\ [][NextDispatch]_vars

\* The tool call failed: the name is not a tool of the server, or the case
\* body threw.
ToolCallFailed ==
    /\ tool.pc # "idle"
    /\ tool.name \notin ToolsOf(tool.server) \/ tool.env.failure # "none"

(* C21: every tool call that fails inside either dispatcher returns a
   response instead of throwing, and the response is error-flagged (isError
   is true), so that no failing call returns a response with the flags of a
   success response. *)
C21_FailuresAreFlagged ==
    ToolCallFailed =>
        /\ tool.pc = "returned"
        /\ tool.response.isError = <<TRUE>>
        /\ tool.response.isError # SuccessResponse(tool.name).isError

(* ------------------------------ appendMessage ------------------------- *)

\* The sentinel returned when no UID is known.
Unknown == <<"u", "n", "k", "n", "o", "w", "n">>

\* UIDVALIDITY values a server reports.
UidValidities == {7, 8}

\* The answer to APPEND: false, or an object with optional uid and
\* uidValidity.
AppendReplies ==
    [present : {FALSE}, uid : {<<>>}, uidValidity : {<<>>}]
    \cup [present : {TRUE}, uid : OptionalNumbers(Uids),
          uidValidity : OptionalNumbers(UidValidities)]

\* result.uid?.toString() || result.uidValidity?.toString() || 'unknown'
appendedUid(result) ==
    IF ~result.present THEN Unknown
    ELSE IF result.uid # <<>> THEN toString(result.uid[1])
    ELSE IF result.uidValidity # <<>> THEN toString(result.uidValidity[1])
    ELSE Unknown

appendMessage(c, folder, flags, srv, reply) ==
    LET x1 == ensureConnected(Ctx(c), srv)
        x2 == Command(x1, <<"append", folder,
                            IF flags = <<>> THEN <<"\\Draft">> ELSE flags[1]>>,
                      srv)
    IN  IF ~Ok(x2)
        THEN Outcome(x2, <<>>,
                     [present |-> FALSE, uid |-> <<>>, uidValidity |-> <<>>])
        ELSE Outcome(x2, appendedUid(reply), reply)

AppendMessage(folder, flags, srv, reply) ==
    ImapApply("appendMessage", folder, [folder |-> folder, flags |-> flags],
              appendMessage(imap, folder, flags, srv, reply))

AppendCalls ==
    [op : {"appendMessage"}, folder : Folders,
     flags : {<<>>, <<<<"\\Seen">>>>},
     srv : ServersRejecting({"append"}), reply : AppendReplies]

\* One request that appends a message (a draft) reaches the client.
InitAppend ==
    /\ provider = "icloud"
    /\ AcctInit
    /\ batch = BatchIdle
    /\ tool = ToolIdle
    /\ imapClients = NoClients
    /\ tasks = NoTasks
    /\ imap \in ImapStartStates
    /\ imapLast = ImapNoCall
    /\ imapCall \in AppendCalls

NextAppend ==
    /\ imapLast.op = "new"
    /\ AppendMessage(imapCall.folder, imapCall.flags, imapCall.srv,
                     imapCall.reply)

SpecAppend == InitAppend /\ [][NextAppend]_vars

(* C22: appendMessage returns the new message's UID when the protocol
   response reports one and the sentinel 'unknown' in every other case
   (response false or absent, or an object with no uid); it never returns
   another value in place of a UID. *)
C22_AppendReturnsUidOrUnknown ==
    ( /\ imapLast.op = "appendMessage"
      /\ imapLast.err = "none" )
    => imapLast.result
         = IF imapLast.reply.present /\ imapLast.reply.uid # <<>>
           THEN toString(imapLast.reply.uid[1])
           ELSE Unknown

(* ---------------------- get_or_create_label (Gmail) ------------------- *)

\* Labels of a Gmail account: user labels and a system label.
LabelNames == {"Work", "work", "INBOX", "Receipts"}

GmailLabels ==
    {[name |-> "Work", type |-> "user"], [name |-> "work", type |-> "user"],
     [name |-> "INBOX", type |-> "system"]}

\* The `type` of the label object the backend returns for a label it has
\* just created.
CreatedTypes == {"user", Undefined}

\* getOrCreateLabel of label-manager.js: the label with exactly the
\* requested name if the account has one, otherwise a label created with
\* that name.
getOrCreateLabel(labels, name, createdType) ==
    LET existing == {l \in labels : l.name = name}
    IN  IF existing # {}
        THEN [result |-> CHOOSE l \in existing : TRUE, labels |-> labels]
        ELSE LET created == [name |-> name, type |-> createdType]
             IN  [result |-> created, labels |-> labels \cup {created}]

\* result.type === 'user' && result.name === validatedArgs.name
\*     ? 'found existing' : 'created new'
labelAction(result, name) ==
    IF result.type = "user" /\ result.name = name THEN "found existing"
    ELSE "created new"

getOrCreateLabelTool(labels, name, createdType, failure) ==
    LET r == getOrCreateLabel(labels, name, createdType)
    IN  IF failure # "none"
        THEN [labels |-> labels, response |-> gmailCatch(failure)]
        ELSE [labels |-> r.labels,
              response |-> Response(<<"Successfully", labelAction(r.result, name),
                                      "label">>, <<>>)]

\* The get_or_create_label call waiting in the dispatcher is handled.
GetOrCreateLabel ==
    /\ tool.pc = "called"
    /\ tool.name = "get_or_create_label"
    /\ LET r == getOrCreateLabelTool(tool.env.labels, tool.args.name,
                                     tool.env.createdType, tool.env.failure)
       IN  tool' = [tool EXCEPT !.pc = "returned",
                                !.effect = [labels |-> r.labels],
                                !.response = r.response]
    /\ UNCHANGED <<acctVars, batch, imapVars, asyncVars>>

LabelCalls ==
    [pc : {"called"}, server : {"gmail"}, name : {"get_or_create_label"},
     args : [name : LabelNames],
     env : [failure : FailureKinds \cup {"none"}, labels : SUBSET GmailLabels,
            createdType : CreatedTypes],
     effect : {<<>>}, response : {<<>>}]

\* One get_or_create_label request reaches the Gmail server.
InitLabel ==
    /\ provider = "gmail"
    /\ AcctInit
    /\ batch = BatchIdle
    /\ tool \in LabelCalls
    /\ imapClients = NoClients
    /\ tasks = NoTasks
    /\ imap = ImapNew
    /\ imapLast = ImapNoCall
    /\ imapCall = Null

NextLabel == GetOrCreateLabel

SpecLabel == InitLabel /\ [][NextLabel]_vars

(* C23: get_or_create_label reports the branch taken: the response says
   'found existing' exactly when a label with exactly the requested name
   existed before the call, and 'created new' exactly when the call created
   the label. *)
C23_LabelBranchReported ==
    ( /\ tool.pc = "returned"
      /\ tool.name = "get_or_create_label"
      /\ tool.env.failure = "none" )
    => LET existed == \E l \in tool.env.labels : l.name = tool.args.name
           created == tool.effect.labels # tool.env.labels
       IN  /\ tool.response.text[2] = "found existing" <=> existed
           /\ tool.response.text[2] = "created new" <=> created

(* ----------------------- moveEmails, UID list filtering --------------- *)

moveEmails(c, uids, sourceFolder, destinationFolder, srv) ==
    LET x1 == selectMailbox(ensureConnected(Ctx(c), srv), sourceFolder, srv)
        uidNumbers == uidNumbersOf(uids)
        x2 == Command(x1, <<"messageMove", uidNumbers, destinationFolder>>, srv)
    IN  IF ~Ok(x1) \/ uids = <<>> THEN Outcome(x1, <<>>, <<>>)
        ELSE IF uidNumbers = <<>>
             THEN Outcome([x1 EXCEPT !.err = "No valid UIDs provided"],
                          <<>>, <<>>)
        ELSE Outcome(IF Ok(x2) THEN [x2 EXCEPT !.c.currentMailbox = Null]
                     ELSE x2,
                     <<>>, <<>>)

MoveEmails(uids, sourceFolder, destinationFolder, srv) ==
    ImapApply("moveEmails", sourceFolder,
              [uids |-> uids, sourceFolder |-> sourceFolder,
               destinationFolder |-> destinationFolder],
              moveEmails(imap, uids, sourceFolder, destinationFolder, srv))

\* Longest UID list of a call.
MaxUidList == 2

\* UID strings a caller can pass: numeric, numeric with a tail, not numeric,
\* empty.
UidTexts == {<<"2">>, <<"1", "3">>, <<"2", "x">>, <<"x">>, <<>>}

UidLists == UNION {[1..n -> UidTexts] : n \in 0..MaxUidList}

UidListCalls ==
    [op : {"moveEmails"}, uids : UidLists, folder : Folders,
     destinationFolder : Folders, srv : ServersRejecting({"messageMove"})]
    \cup [op : {"markEmailsRead"}, uids : UidLists, folder : FolderArgs,
          destinationFolder : {Undefined},
          srv : ServersRejecting({"messageFlagsAdd"})]

\* One move_emails or mark_emails_read request reaches the client.
InitUidList ==
    /\ provider = "icloud"
    /\ AcctInit
    /\ batch = BatchIdle
    /\ tool = ToolIdle
    /\ imapClients = NoClients
    /\ tasks = NoTasks
    /\ imap \in ImapStartStates
    /\ imapLast = ImapNoCall
    /\ imapCall \in UidListCalls

NextUidList ==
    \/ /\ imapLast.op = "new"
       /\ imapCall.op = "moveEmails"
       /\ MoveEmails(imapCall.uids, imapCall.folder,
                     imapCall.destinationFolder, imapCall.srv)
    \/ /\ imapLast.op = "new"
       /\ imapCall.op = "markEmailsRead"
       /\ MarkEmailsRead(imapCall.uids, imapCall.folder, imapCall.srv)

SpecUidList == InitUidList /\ [][NextUidList]_vars

\* The positions of the UID strings that parse as numbers.
ParsingPositions(uids) == {k \in DOMAIN uids : parseInt(uids[k]) # NaN}

\* sent lists the numbers of the parsing UID strings, in their order.
IsFiltered(sent, uids) ==
    /\ Len(sent) = Cardinality(ParsingPositions(uids))
    /\ \E f \in [DOMAIN sent -> ParsingPositions(uids)] :
          /\ \A j, k \in DOMAIN sent : j < k => f[j] < f[k]
          /\ \A j \in DOMAIN sent : sent[j] = parseInt(uids[f[j]])

\* The move or flag commands the call issued.
UidCommands ==
    {k \in DOMAIN imapLast.cmds :
        imapLast.cmds[k][1] \in {"messageMove", "messageFlagsAdd"}}

(* C24: in moveEmails and markEmailsRead, UIDs that do not parse as numbers
   are dropped and only the remaining UIDs are sent in the protocol command;
   if the UID list is non-empty and no UID remains after filtering, the call
   fails with an explicit error and issues no move or flag command. *)
C24_UidFiltering ==
    imapLast.op \in {"moveEmails", "markEmailsRead"} =>
        LET uids == imapLast.args.uids
        IN  /\ \A k \in UidCommands :
                  /\ imapLast.cmds[k][2] # <<>>
                  /\ IsFiltered(imapLast.cmds[k][2], uids)
            /\ (uids # <<>> /\ ParsingPositions(uids) = {}) =>
                  /\ UidCommands = {}
                  /\ imapLast.err # "none"
                  /\ ServerCooperates(imapCall.srv)
                       => imapLast.err = "No valid UIDs provided"
            /\ (ParsingPositions(uids) # {} /\ ServerCooperates(imapCall.srv))
                  => UidCommands # {} /\ imapLast.err = "none"

\* A call has sent a command for a list from which a UID was dropped.
C24_Witness ==
    /\ imapLast.op \in {"moveEmails", "markEmailsRead"}
    /\ UidCommands # {}
    /\ Cardinality(ParsingPositions(imapLast.args.uids))
         < Len(imapLast.args.uids)

(***************************************************************************)
(* One ImapClient serving a sequence of calls: every operation of the      *)
(* client, with small data, from a client that has just been constructed.  *)
(***************************************************************************)

InitImap ==
    /\ provider = "icloud"
    /\ AcctInit
    /\ batch = BatchIdle
    /\ tool = ToolIdle
    /\ imapClients = NoClients
    /\ tasks = NoTasks
    /\ imap = ImapNew
    /\ imapLast = ImapNoCall
    /\ imapCall = Null

NextImap ==
    \/ \E srv \in ServersFor(imap, {}) : Connect(srv)
    \/ ConnectionLost
    \/ \E folder \in FolderArgs, matching \in {{}, {1}},
          srv \in ServersFor(imap, {"mailboxOpen", "search", "fetch"}) :
           SearchEmails([folder |-> folder, maxResults |-> <<>>], srv,
                        [matching |-> matching,
                         delivery |-> sortDescending(matching),
                         noEnvelope |-> {}])
    \/ \E folder \in FolderArgs, found \in BOOLEAN,
          srv \in ServersFor(imap, {"mailboxOpen", "fetchOne"}) :
           ReadEmail(<<"2">>, folder, srv,
                     [found |-> found,
                      attachments |-> IF found THEN OneAttachment ELSE <<>>])
    \/ \E folder \in FolderArgs, uids \in {<<>>, <<<<"2">>>>, <<<<"x">>>>},
          srv \in ServersFor(imap, {"mailboxOpen", "messageFlagsAdd"}) :
           MarkEmailsRead(uids, folder, srv)
    \/ \E sourceFolder \in Folders, destinationFolder \in Folders,
          srv \in ServersFor(imap, {"mailboxOpen", "messageMove"}) :
           MoveEmail(<<"2">>, sourceFolder, destinationFolder, srv)
    \/ \E sourceFolder \in Folders, uids \in {<<>>, <<<<"2">>>>},
          srv \in ServersFor(imap, {"mailboxOpen", "messageMove"}) :
           MoveEmails(uids, sourceFolder, "Archive", srv)
    \/ \E folder \in Folders, uid \in OptionalNumbers({1}),
          srv \in ServersFor(imap, {"append"}) :
           AppendMessage(folder, <<>>, srv,
                         [present |-> TRUE, uid |-> uid, uidValidity |-> <<>>])
    \/ \E folder \in FolderArgs, permanent \in BOOLEAN,
          folders \in {<<>>, <<ICloudTrash>>},
          srv \in ServersFor(imap, {"mailboxOpen", "list", "messageMove",
                                    "messageDelete"}) :
           DeleteEmail(<<"2">>, folder, permanent, srv, folders)
    \/ \E folder \in FolderArgs, found \in BOOLEAN,
          srv \in ServersFor(imap, {"mailboxOpen", "fetchOne"}) :
           DownloadAttachment(<<"2">>, <<"0">>, folder, srv,
                              [found |-> found,
                               attachments |-> IF found THEN OneAttachment
                                               ELSE <<>>])

SpecImap == InitImap /\ [][NextImap]_vars

(***************************************************************************)
(* Failures inside an operation of the ImapClient.                         *)
(***************************************************************************)

\* The operations that send protocol commands for a caller.
ProtocolOperations ==
    {"searchEmails", "readEmail", "moveEmail", "moveEmails", "deleteEmail",
     "markEmailsRead", "downloadAttachment", "appendMessage"}

\* The call sent a command, connected after it and sent that command again.
RetriedAfterReconnect(call) ==
    \E i \in DOMAIN call.cmds, j \in DOMAIN call.cmds, k \in DOMAIN call.cmds :
        /\ i < j /\ j < k
        /\ call.cmds[i][1] \notin {"connect", "logout"}
        /\ call.cmds[j][1] = "connect"
        /\ call.cmds[k][1] = call.cmds[i][1]

(* C25: when a protocol command of a search, read, move, delete, mark-read,
   download or append fails with a connection-level error, the client
   reconnects and sends the command again before the call returns; the
   caller sees an error only after such a retry. *)
C25_ReconnectAndRetryOnce ==
    (imapLast.op \in ProtocolOperations /\ imapLast.dropped)
        => RetriedAfterReconnect(imapLast)

\* The errors of the connection and of protocol commands, as a call
\* propagates them.
ProtocolErrors ==
    CommandNames \cup {"connect", "logout", "Failed to fetch emails"}

\* This step is a call of an operation that propagates such an error.
PropagatesProtocolError ==
    /\ imapLast'.calls # imapLast.calls
    /\ imapLast'.op \in ProtocolOperations
    /\ imapLast'.err \in ProtocolErrors

(* C26: an operation that propagates a protocol or connection error leaves
   the client with no cached connection and no cached selected mailbox, so
   that the next operation connects and opens its mailbox anew. *)
C26_InvalidatedBeforePropagating ==
    [][PropagatesProtocolError
          => imap'.client = "null" /\ imap'.currentMailbox = Null]_vars

(* C27: in every reachable state of a client with a live connection, a
   cached currentMailbox is the mailbox selected on that connection, so the
   commands of an operation that finds its folder cached run with that
   folder selected. *)
C27_CachedMailboxIsSelected ==
    (imap.client = "usable" /\ imap.currentMailbox # Null)
        => imap.currentMailbox = imap.selected

\* The operations that change the messages of a mailbox.
MutatingOperations ==
    {"moveEmail", "moveEmails", "deleteEmail", "markEmailsRead"}

\* This step is a call of such an operation that returns without error.
MutationSucceeds ==
    /\ imapLast'.calls # imapLast.calls
    /\ imapLast'.op \in MutatingOperations
    /\ imapLast'.err = "none"

(* C28: every successful moveEmail, moveEmails, deleteEmail (permanent or
   not) and markEmailsRead leaves the client with no cached selected
   mailbox, so that the next operation opens its mailbox even when it is the
   same folder. *)
C28_MutationClearsCache ==
    [][MutationSucceeds => imap'.currentMailbox = Null]_vars

\* The connection attempts of a call.
Connects(call) ==
    Cardinality({k \in DOMAIN call.cmds : call.cmds[k][1] = "connect"})

\* This step is a call of an operation whose ensureConnected finds a cached
\* handle that is not usable.
ProbeFails ==
    /\ imap.client = "unusable"
    /\ imapLast'.calls # imapLast.calls
    /\ imapLast'.op \in ProtocolOperations

(* C29: when ensureConnected finds a cached handle that is not usable, it
   tears the handle down and connects once: the call never fails with the
   error of the teardown, and it fails with a connection error only when
   that one connection attempt fails. *)
C29_ProbeFailureMasked ==
    [][ProbeFails
          => /\ imapLast'.err # "logout"
             /\ Connects(imapLast') = 1]_vars

\* This step is a call in which a connection attempt or a teardown fails.
ConnectionChangeFails ==
    /\ imapLast'.calls # imapLast.calls
    /\ imapLast'.err \in {"connect", "logout"}

(* C30: after a failed connect, disconnect or reconnect the cached handle is
   null or a usable connection, never a handle that is stored but not
   connected; a failed connect() therefore leaves nothing that makes the
   next connect() return without connecting. *)
C30_NoHalfOpenHandle ==
    [][ConnectionChangeFails => imap'.client \in {"null", "usable"}]_vars

(***************************************************************************)
(* getImapClient of the iCloud server (src/unnamed/part_000, lines 29-45)  *)
(* called by tool calls in flight at the same time.  A task is one call:   *)
(* it is suspended at `await accountManager.getCredentials(account)` and   *)
(* at `await client.connect()`, and other tasks run while it is.  The      *)
(* ImapClient a task constructs is named by the task's number.             *)
(***************************************************************************)

\* Tool calls that can be in flight together.
MaxTasks == 3

TaskIds == 1 .. MaxTasks

TaskIdle ==
    [pc |-> "idle", email |-> Null, client |-> 0, connected |-> FALSE,
     result |-> 0]

\* imapClients.set(email, client).
mapSet(map, key, value) ==
    [k \in DOMAIN map \cup {key} |-> IF k = key THEN value ELSE map[k]]

\* A tool call enters getImapClient and awaits the account's credentials.
getImapClient_call(t, email) ==
    /\ tasks[t].pc = "idle"
    /\ tasks' = [tasks EXCEPT ![t].pc = "getCredentials", ![t].email = email]
    /\ UNCHANGED <<acctVars, batch, tool, imapVars, imapClients>>

\* The credentials arrive: the call tests the cache and either returns the
\* cached client or constructs one and awaits its connect().
getImapClient_resume(t) ==
    /\ tasks[t].pc = "getCredentials"
    /\ tasks' = IF tasks[t].email \in DOMAIN imapClients
                THEN [tasks EXCEPT ![t].pc = "returned",
                                   ![t].result = imapClients[tasks[t].email]]
                ELSE [tasks EXCEPT ![t].pc = "connect", ![t].client = t]
    /\ UNCHANGED <<acctVars, batch, tool, imapVars, imapClients>>

\* connect() settles: on success the client is put in the cache and the
\* cached client is returned; on failure the call throws.
getImapClient_connected(t, ok) ==
    /\ tasks[t].pc = "connect"
    /\ IF ok
       THEN /\ imapClients' = mapSet(imapClients, tasks[t].email, t)
            /\ tasks' = [tasks EXCEPT ![t].pc = "returned",
                                      ![t].connected = TRUE,
                                      ![t].result = imapClients'[tasks[t].email]]
       ELSE /\ tasks' = [tasks EXCEPT ![t].pc = "thrown"]
            /\ UNCHANGED imapClients
    /\ UNCHANGED <<acctVars, batch, tool, imapVars>>

InitSessions ==
    /\ provider = "icloud"
    /\ AcctInit
    /\ batch = BatchIdle
    /\ tool = ToolIdle
    /\ imap = ImapNew
    /\ imapLast = ImapNoCall
    /\ imapCall = Null
    /\ imapClients = NoClients
    /\ tasks = [t \in TaskIds |-> TaskIdle]

NextSessions ==
    \/ \E t \in TaskIds, email \in Emails : getImapClient_call(t, email)
    \/ \E t \in TaskIds : getImapClient_resume(t)
    \/ \E t \in TaskIds, ok \in BOOLEAN : getImapClient_connected(t, ok)

SpecSessions == InitSessions /\ [][NextSessions]_vars

\* The clients of an account that are connected or connecting.
SessionsOf(email) ==
    {t \in TaskIds : /\ tasks[t].email = email
                     /\ tasks[t].client = t
                     /\ tasks[t].pc = "connect" \/ tasks[t].connected}

(* C31: at most one IMAP session per account: no account has two clients
   that are connected or connecting, and every connected client is the one
   the cache holds for its account. *)
C31_OneSessionPerAccount ==
    \A email \in Emails :
        /\ Cardinality(SessionsOf(email)) <= 1
        /\ \A t \in SessionsOf(email) :
               tasks[t].connected
                 => email \in DOMAIN imapClients /\ imapClients[email] = t

(***************************************************************************)
(* Operations of one connected ImapClient in flight at the same time       *)
(* (src/packages/icloud/src/imap-client.ts): readEmail (lines 234-258) and *)
(* moveEmail (lines 352-361), each suspended at its awaits.  The           *)
(* connection runs the commands it is given in the order they are issued   *)
(* and answers them in that order, so imap.selected at the moment a        *)
(* command is issued is the mailbox the command runs in.                   *)
(***************************************************************************)

OperationIdle ==
    [pc |-> "idle", op |-> "none", folder |-> Null, ranIn |-> Null,
     issued |-> 0]

\* The position in the connection's command queue of the next command.
NextInQueue ==
    1 + CHOOSE n \in {tasks[u].issued : u \in TaskIds} :
            \A u \in TaskIds : tasks[u].issued <= n

\* The command task t awaits is the oldest one still awaited: the
\* connection answers commands in the order they were issued.
OldestAwaited(t) ==
    \A u \in TaskIds :
        tasks[u].pc \in {"mailboxOpen", "await"}
            => tasks[t].issued <= tasks[u].issued

\* A client that getImapClient has connected: no mailbox opened yet.
ImapJustConnected ==
    [client |-> "usable", currentMailbox |-> Null, selected |-> Null]

\* The operation is called and awaits ensureConnected.
operation_call(t, op, folder) ==
    /\ tasks[t].pc = "idle"
    /\ tasks' = [tasks EXCEPT ![t].pc = "selectMailbox", ![t].op = op,
                              ![t].folder = folder]
    /\ UNCHANGED <<acctVars, batch, tool, imapVars, imapClients>>

\* selectMailbox: the cached name is compared; mailboxOpen is issued and
\* awaited when it differs.
selectMailbox_check(t) ==
    /\ tasks[t].pc = "selectMailbox"
    /\ IF imap.currentMailbox # tasks[t].folder
       THEN /\ imap' = [imap EXCEPT !.selected = tasks[t].folder]
            /\ tasks' = [tasks EXCEPT ![t].pc = "mailboxOpen",
                                      ![t].issued = NextInQueue]
       ELSE /\ tasks' = [tasks EXCEPT ![t].pc = "command"]
            /\ UNCHANGED imap
    /\ UNCHANGED <<acctVars, batch, tool, imapLast, imapCall, imapClients>>

\* mailboxOpen resolves: the name is cached.
selectMailbox_opened(t) ==
    /\ tasks[t].pc = "mailboxOpen"
    /\ OldestAwaited(t)
    /\ imap' = [imap EXCEPT !.currentMailbox = tasks[t].folder]
    /\ tasks' = [tasks EXCEPT ![t].pc = "command"]
    /\ UNCHANGED <<acctVars, batch, tool, imapLast, imapCall, imapClients>>

\* The operation issues its UID command (fetchOne, messageMove) and awaits
\* it.
operation_command(t) ==
    /\ tasks[t].pc = "command"
    /\ tasks' = [tasks EXCEPT ![t].pc = "await", ![t].ranIn = imap.selected,
                              ![t].issued = NextInQueue]
    /\ UNCHANGED <<acctVars, batch, tool, imapVars, imapClients>>

\* The command resolves: moveEmail resets the cached name, and the
\* operation returns.
operation_return(t) ==
    /\ tasks[t].pc = "await"
    /\ OldestAwaited(t)
    /\ tasks' = [tasks EXCEPT ![t].pc = "returned"]
    /\ imap' = IF tasks[t].op = "moveEmail"
               THEN [imap EXCEPT !.currentMailbox = Null]
               ELSE imap
    /\ UNCHANGED <<acctVars, batch, tool, imapLast, imapCall, imapClients>>

InitInterleaved ==
    /\ provider = "icloud"
    /\ AcctInit
    /\ batch = BatchIdle
    /\ tool = ToolIdle
    /\ imap = ImapJustConnected
    /\ imapLast = ImapNoCall
    /\ imapCall = Null
    /\ imapClients = NoClients
    /\ tasks = [t \in TaskIds |-> OperationIdle]

NextInterleaved ==
    \/ \E t \in TaskIds, op \in {"readEmail", "moveEmail"},
          folder \in Folders : operation_call(t, op, folder)
    \/ \E t \in TaskIds : selectMailbox_check(t)
    \/ \E t \in TaskIds : selectMailbox_opened(t)
    \/ \E t \in TaskIds : operation_command(t)
    \/ \E t \in TaskIds : operation_return(t)

SpecInterleaved == InitInterleaved /\ [][NextInterleaved]_vars

(* C32: whatever the interleaving of the operations of one ImapClient,
   every operation's UID command runs in the folder that operation named:
   no operation acts on a UID in another operation's folder. *)
C32_CommandsRunInOwnFolder ==
    \A t \in TaskIds :
        tasks[t].pc \in {"await", "returned"}
            => tasks[t].ranIn = tasks[t].folder

(***************************************************************************)
(* Two AccountManager instances on one configuration directory: this       *)
(* process's manager, and managers of other processes (the `auth` command  *)
(* of the command line) that are constructed, add or remove an account and *)
(* exit.                                                                   *)
(***************************************************************************)

\* A manager of another process is constructed, adds an account and exits.
PeerAddAccount(email, alias) ==
    \E now \in Now :
        LET r == IF provider = "icloud"
                 THEN addAccount(PeerState, email, alias, now)
                 ELSE Gmail_addAccount(PeerState, email, alias, now)
        IN  /\ r.err = "none"
            /\ diskRegistry' = r.s.diskRegistry
            /\ credFiles' = r.s.credFiles
            /\ activeFile' = r.s.activeFile
            /\ clock' = now
            /\ last' = Call("peerAddAccount", email, alias, r)
            /\ UNCHANGED <<provider, registry, clients, oauth2Config,
                           batch, tool, imapVars, asyncVars>>

InitWriters == Init /\ provider = "icloud"

\* The calls of the iCloud manager, and a peer adding or removing an account.
NextWriters ==
    \/ \E email \in Emails, alias \in AliasNames \cup {Undefined} :
           AddAccount(email, alias)
    \/ \E id \in Identifiers : RemoveAccount(id)
    \/ \E id \in Identifiers, alias \in AliasNames : SetAlias(id, alias)
    \/ \E id \in Identifiers : SetActiveAccount(id)
    \/ \E id \in Identifiers \cup {Undefined} : GetCredentials(id)
    \/ \E id \in Identifiers : PeerRemoveAccount(id)
    \/ \E email \in Emails : PeerAddAccount(email, Undefined)

SpecWriters == InitWriters /\ [][NextWriters]_vars

PeerOperations == {"peerAddAccount", "peerRemoveAccount"}

\* This step is a call of this process's manager that rewrites the registry
\* file while the file holds an account the manager has not loaded.
SavesOver(email) ==
    /\ last'.op \notin PeerOperations
    /\ diskRegistry' # diskRegistry
    /\ HasKey(diskRegistry, email)
    /\ ~HasKey(registry, email)

(* C33: an account that another instance added to the registry file after
   this instance loaded it is erased from the file when this instance next
   saves its registry (unless the call is this instance's own addAccount of
   that account, which replaces the entry); the active-account file can then
   name an email the registry file does not hold. *)
C33_LostUpdate ==
    [][\A email \in Emails :
          SavesOver(email)
              => \/ ~HasKey(diskRegistry', email)
                 \/ last'.op = "addAccount" /\ last'.arg = email]_vars

\* This instance has saved its registry, and the active-account file names
\* an account whose credential file exists and which the registry file does
\* not hold.
C33_Witness ==
    /\ last.op \notin PeerOperations
    /\ last.err = "none"
    /\ diskRegistry = registry
    /\ activeFile # Null
    /\ ~HasKey(diskRegistry, activeFile)
    /\ credentialsPathOf(activeFile) \in credFiles

(***************************************************************************)
(* processBatches with every chunk size a handler can pass to it: the      *)
(* schema accepts any number as batchSize (account-manager.ts, line 601)   *)
(* and the handler replaces only a falsy one by 50 (line 1217).  The event *)
(* loop resumes the function whenever the call it awaits settles.          *)
(***************************************************************************)

NextBatchSizes ==
    \/ \E handler \in BatchHandlers, n \in 0..2,
          batchSize \in (-MaxBatchSize)..MaxBatchSize :
           \E held \in SUBSET (1..n) : BatchCall(handler, n, batchSize, held)
    \/ BatchLoop
    \/ BatchReturn

SpecBatchSizes ==
    /\ InitBatch
    /\ [][NextBatchSizes]_vars
    /\ WF_vars(BatchLoop)
    /\ WF_vars(BatchReturn)

RequestedMaximum(options) ==
    IF options.maxResults = <<>> THEN DefaultMaxResults
    ELSE options.maxResults[1]

\* The n largest members of S (all of S when it has fewer).
Largest(S, n) == {u \in S : Cardinality({v \in S : v > u}) < n}

\* The search command of the call has been answered.
SearchAnswered ==
    /\ imapLast.op = "searchEmails"
    /\ \E k \in DOMAIN imapLast.cmds : imapLast.cmds[k][1] = "search"
    /\ imapLast.err # "search"

FetchCommands ==
    {k \in DOMAIN imapLast.cmds : imapLast.cmds[k][1] = "fetch"}

(* C35: in searchEmails the UIDs passed to fetch are exactly the
   min(N, number of matches) largest matching UIDs, N the requested maximum,
   in descending order, in one fetch command issued after the search; when
   there are none, no fetch is issued and the call returns an empty list
   without error. *)
C35_FetchesLargestMatches ==
    SearchAnswered
        => LET expected == Largest(imapCall.reply.matching,
                                   RequestedMaximum(imapCall.options))
           IN  IF expected = {}
               THEN /\ FetchCommands = {}
                    /\ imapLast.result = <<>>
                    /\ imapLast.err = "none"
               ELSE /\ Cardinality(FetchCommands) = 1
                    /\ \A k \in FetchCommands :
                           imapLast.cmds[k][2] = sortDescending(expected)

(***************************************************************************)
(* Identifiers that name no account.                                       *)
(***************************************************************************)

\* The methods that look the resolved identifier up in the registry.
LookupOperations ==
    {"getCredentials", "getClient", "setActiveAccount", "removeAccount",
     "setAlias"}

\* The identifier is no key of the registry and no entry's alias.
Unmatched(reg, id) ==
    /\ ~HasKey(reg, id)
    /\ \A i \in DOMAIN reg : reg[i].alias # id

(* C36: two-stage resolve-then-fail.  An identifier that is no registered
   email and no alias is returned unchanged by resolveEmailFromAlias, and
   the call of getCredentials / getClient, setActiveAccount, removeAccount
   or setAlias that was given it fails at its registry lookup with an
   account-not-found error that names the identifier as given. *)
C36_ResolveThenFail ==
    [][\A id \in Identifiers :
          ( /\ last'.op \in LookupOperations
            /\ last'.arg = id
            /\ Unmatched(registry, id) )
          => /\ resolveEmailFromAlias(registry, id) = id
             /\ last'.err = "AccountNotFound"
             /\ last'.email = id
             /\ registry' = registry]_vars

\* A lookup has failed for an identifier that names none of the registered
\* accounts.
C36_Witness ==
    /\ last.op \in LookupOperations
    /\ last.err = "AccountNotFound"
    /\ last.email = last.arg
    /\ registry # <<>>
    /\ Unmatched(registry, last.arg)

(***************************************************************************)
(* A removed account and its cached client.                                *)
(***************************************************************************)

\* The account whose removal is followed, and the alias it is registered
\* under when the manager is constructed.
RemovedEmail == "a"
FormerAlias == "x"

\* The registry file the Gmail constructor finds (loadRegistry): the
\* account under its alias, alone or with a second account that has no
\* alias.
LoadedRegistries ==
    LET entry(email, alias) ==
            [email |-> email, alias |-> alias,
             credentialsPath |-> credentialsPathOf(email), lastUsed |-> 0]
    IN  { <<entry(RemovedEmail, FormerAlias)>>,
          <<entry(RemovedEmail, FormerAlias), entry("b", Undefined)>> }

\* A Gmail manager constructed on a configuration directory that holds the
\* account: the registry is loaded, the client cache starts empty.
InitRemoved ==
    /\ batch = BatchIdle
    /\ tool = ToolIdle
    /\ imapClients = NoClients
    /\ tasks = NoTasks
    /\ imap = ImapNew
    /\ imapLast = ImapNoCall
    /\ imapCall = Null
    /\ provider = "gmail"
    /\ registry \in LoadedRegistries
    /\ diskRegistry = registry
    /\ credFiles = {registry[i].credentialsPath : i \in DOMAIN registry}
    /\ activeFile \in {Null, RemovedEmail}
    /\ clients = {}
    /\ oauth2Config = FALSE
    /\ clock = 0
    /\ last = [op |-> "new", arg |-> Undefined, alias |-> Undefined,
               err |-> "none", email |-> Null, lists |-> FALSE, names |-> <<>>]

\* Every call of the manager except those that register the account again
\* or change its alias while it is registered.
NextRemoved ==
    \/ InitializeOAuth2Config
    \/ \E email \in Emails \ {RemovedEmail}, alias \in AliasNames \cup {Undefined} :
           AddAccount(email, alias)
    \/ \E id \in Identifiers : RemoveAccount(id)
    \/ \E id \in Identifiers, alias \in AliasNames :
           /\ resolveEmailFromAlias(registry, id) # RemovedEmail
           /\ SetAlias(id, alias)
    \/ \E id \in Identifiers \cup {Undefined} : GetClient(id)

SpecRemoved == InitRemoved /\ [][NextRemoved]_vars

\* The account has been removed: it was registered at construction and
\* only removeAccount takes it out of the registry.
IsRemoved(reg) == ~HasKey(reg, RemovedEmail)

\* The strings that named the account while it was registered.
FormerNames == {RemovedEmail, FormerAlias}

(* C37 as stated: once removeAccount has removed the account, every
   getClient call given its email or its former alias fails with
   account-not-found, and the client cached for it is never returned. *)
C37_RemovedAccountNotFound ==
    [][( /\ IsRemoved(registry)
         /\ last'.op = "getClient"
         /\ last'.arg \in FormerNames )
       => /\ last'.err = "AccountNotFound"
          /\ RemovedEmail \notin clients']_vars

(* C37 amended: a successful removeAccount deletes the account's registry
   entry and its cached client; from then on the cache holds no client for
   it, a getClient call given its email or former alias fails with
   account-not-found as long as that string is not the email or alias of a
   registered account, and when the string has become another account's
   alias the call is answered for that other account. *)
C37_RemovedAccountHasNoClient ==
    [][/\ ( /\ last'.op = "removeAccount"
            /\ last'.err = "none"
            /\ last' # last )
          => /\ ~HasKey(registry', last'.email)
             /\ last'.email \notin clients'
       /\ IsRemoved(registry') => RemovedEmail \notin clients'
       /\ ( /\ IsRemoved(registry)
            /\ last'.op = "getClient"
            /\ last'.arg \in FormerNames )
          => /\ IsRemoved(registry')
             /\ IF Unmatched(registry, last'.arg)
                THEN /\ last'.err = "AccountNotFound"
                     /\ clients' = clients
                ELSE /\ last'.email # RemovedEmail
                     /\ HasKey(registry, last'.email)]_vars

\* A client was cached for another account, and a getClient call naming the
\* removed account has failed with account-not-found.
C37_Witness ==
    /\ IsRemoved(registry)
    /\ oauth2Config
    /\ clients # {}
    /\ last.op = "getClient"
    /\ last.arg \in FormerNames
    /\ last.err = "AccountNotFound"

(***************************************************************************)
(* The move_emails tool of the iCloud server.                              *)
(***************************************************************************)

\* MoveEmailsSchema.parse(args): the list holds at least one UID.
MoveEmailsSchema(args) == Len(args.uids) >= 1

\* case 'move_emails': the handler's effect on the client and its response.
\* The client is the one getImapClient returns for the account.
moveEmailsTool(c, args, srv) ==
    LET r == moveEmails(c, args.uids, args.sourceFolder,
                        args.destinationFolder, srv)
    IN  IF ~MoveEmailsSchema(args)
        THEN [moved |-> Outcome(Ctx(c), <<>>, <<>>),
              response |-> icloudCatch("ZodError")]
        ELSE IF r.x.err # "none"
        THEN [moved |-> r, response |-> icloudCatch(r.x.err)]
        ELSE [moved |-> r,
              response |-> Response([success |-> TRUE,
                                     count |-> Len(args.uids),
                                     uids |-> args.uids,
                                     from |-> args.sourceFolder,
                                     to |-> args.destinationFolder], <<>>)]

\* The move_emails call waiting in the dispatcher is handled.
MoveEmailsTool ==
    /\ tool.pc = "called"
    /\ tool.name = "move_emails"
    /\ LET r == moveEmailsTool(imap, tool.args, tool.env.srv)
       IN  /\ tool' = [tool EXCEPT !.pc = "returned",
                                   !.effect = r.moved.x.cmds,
                                   !.response = r.response]
           /\ imap' = r.moved.x.c
           /\ imapLast' = [op |-> "moveEmails",
                           calls |-> (imapLast.calls + 1) % 2,
                           mailbox |-> tool.args.sourceFolder,
                           cached |-> imap.currentMailbox,
                           cmds |-> r.moved.x.cmds, err |-> r.moved.x.err,
                           dropped |-> r.moved.x.dropped,
                           args |-> tool.args, reply |-> r.moved.reply,
                           result |-> r.moved.result]
    /\ UNCHANGED <<acctVars, batch, imapCall, asyncVars>>

MoveEmailsCalls ==
    [pc : {"called"}, server : {"icloud"}, name : {"move_emails"},
     args : [uids : UidLists, sourceFolder : Folders,
             destinationFolder : Folders],
     env : [srv : ServersRejecting({"messageMove"})],
     effect : {<<>>}, response : {<<>>}]

\* One move_emails request reaches the iCloud server.
InitMoveTool ==
    /\ provider = "icloud"
    /\ AcctInit
    /\ batch = BatchIdle
    /\ tool \in MoveEmailsCalls
    /\ imapClients = NoClients
    /\ tasks = NoTasks
    /\ imap \in ImapStartStates
    /\ imapLast = ImapNoCall
    /\ imapCall = Null

NextMoveTool == MoveEmailsTool

SpecMoveTool == InitMoveTool /\ [][NextMoveTool]_vars

\* The UID lists the handler's call passed to the move command.
SubmittedUids ==
    {tool.effect[k][2] : k \in {j \in DOMAIN tool.effect :
                                   tool.effect[j][1] = "messageMove"}}

(* C39: the success response of the iCloud move_emails tool reports exactly
   the messages submitted to the move command: one move command was issued,
   count is the number of UIDs it was given, and the reported uids are, in
   order, the UIDs it was given. *)
C39_ResponseReportsSubmitted ==
    ( /\ tool.pc = "returned"
      /\ tool.name = "move_emails"
      /\ tool.response.isError = <<>> )
    => \E sent \in SubmittedUids :
          /\ SubmittedUids = {sent}
          /\ tool.response.text.count = Len(sent)
          /\ Len(tool.response.text.uids) = Len(sent)
          /\ \A k \in DOMAIN sent :
                parseInt(tool.response.text.uids[k]) = sent[k]

(***************************************************************************)
(* Attachment identifiers: from readEmail's index to downloadAttachment.   *)
(***************************************************************************)

\* The positions at which readEmail's attachment index of the fetched
\* message lists the identifier the download was asked for.
ListedAt ==
    LET index == parseAttachments(imapLast.reply.attachments)
    IN  {k \in DOMAIN index : index[k].partId = imapLast.args.partId}

(* C38: attachment identifier round trip.  Each partId that readEmail lists
   in the attachment index of a message, passed to downloadAttachment for
   the same message, returns the content of the attachment at the same
   position of the index. *)
C38_PartIdRoundTrip ==
    AttachmentLookedUp =>
        \A k \in ListedAt :
            /\ imapLast.err = "none"
            /\ imapLast.result.content = k

====
